---- MODULE Spec2Model ----
(***************************************************************************)
(* Risk-scoring and report-aggregation engine of V-Scanner:                *)
(*   src/cli/permissions.py       analyze_permissions, get_sdk_risk        *)
(*   src/cli/report_generator.py  create_app_report, create_full_report    *)
(***************************************************************************)
EXTENDS Integers, Sequences, FiniteSets, TLC

\* ------------------------------------------------------------------------
\* Bounds of the model
\* ------------------------------------------------------------------------
\* longest permission list handed to analyze_permissions
MaxPerms == 5

\* highest API level below the out-of-table probes handed to get_sdk_risk
MaxSdkLevel == 36

\* most app reports aggregated by one create_full_report
MaxApps == 4

\* most app reports aggregated when the apps come from the short pool
MaxFleet == 6

\* most app reports aggregated in two orders
MaxReorder == 3

\* most app reports rendered by the serializers
MaxRender == 2

\* most packages list_packages returns
MaxPackages == 3

\* most scan_all_apps calls on one scanner
MaxScans == 2

\* ------------------------------------------------------------------------
\* permissions.py: RiskLevel, PermissionInfo, DANGEROUS_PERMISSIONS
\* ------------------------------------------------------------------------
\* class RiskLevel(Enum): a member is named by its repr, str(member);
\* its .value is a different string
RiskLevel == {"RiskLevel.CRITICAL", "RiskLevel.HIGH", "RiskLevel.MEDIUM",
              "RiskLevel.LOW", "RiskLevel.INFO"}

\* member.value
EnumValue(member) ==
    CASE member = "RiskLevel.CRITICAL" -> "CRITICAL"
      [] member = "RiskLevel.HIGH"     -> "HIGH"
      [] member = "RiskLevel.MEDIUM"   -> "MEDIUM"
      [] member = "RiskLevel.LOW"      -> "LOW"
      [] member = "RiskLevel.INFO"     -> "INFO"

\* @dataclass PermissionInfo
PermissionInfo(name, risk_level, category, description, risks, mitigations, secure_alternatives) ==
    [name |-> name, risk_level |-> risk_level, category |-> category,
     description |-> description, risks |-> risks, mitigations |-> mitigations,
     secure_alternatives |-> secure_alternatives]

\* Python's None, and a value that is not None
None == [none |-> TRUE]

Some(value) == [some |-> value]

DANGEROUS_PERMISSIONS ==
    ("android.permission.READ_SMS" :> PermissionInfo("READ_SMS", "RiskLevel.CRITICAL", "SMS",
        "Allows reading SMS messages",
        <<"Can read OTP/2FA codes", "Access to personal conversations", "Financial data exposure (bank SMS)", "Identity theft risk">>,
        <<"Revoke if not essential for app function", "Use SMS Retriever API instead", "Enable 2FA with authenticator apps">>,
        <<"Google SMS Retriever API", "Push notifications for OTP">>))
    @@ ("android.permission.SEND_SMS" :> PermissionInfo("SEND_SMS", "RiskLevel.CRITICAL", "SMS",
        "Allows sending SMS messages",
        <<"Unauthorized SMS charges", "Spam distribution", "Premium SMS fraud", "Phishing attacks">>,
        <<"Deny unless messaging app", "Monitor phone bills regularly", "Use Intent-based SMS for occasional sends">>,
        <<"Intent ACTION_SENDTO", "In-app messaging services">>))
    @@ ("android.permission.RECEIVE_SMS" :> PermissionInfo("RECEIVE_SMS", "RiskLevel.CRITICAL", "SMS",
        "Allows receiving SMS messages",
        <<"Intercept OTP codes", "Privacy violation", "SMS-based attacks">>,
        <<"Review which apps have this permission", "Use authenticator apps for 2FA">>,
        <<"SMS Retriever API", "Firebase Auth phone verification">>))
    @@ ("android.permission.READ_CONTACTS" :> PermissionInfo("READ_CONTACTS", "RiskLevel.HIGH", "Contacts",
        "Allows reading contact data",
        <<"Contact list harvesting", "Social engineering attacks", "Spam targeting contacts", "Privacy breach">>,
        <<"Grant only to trusted communication apps", "Review app reviews before granting", "Use contact picker for single selections">>,
        <<"Contact Picker API", "Manual contact entry">>))
    @@ ("android.permission.WRITE_CONTACTS" :> PermissionInfo("WRITE_CONTACTS", "RiskLevel.HIGH", "Contacts",
        "Allows modifying contact data",
        <<"Contact manipulation", "Malicious contact injection", "Data corruption">>,
        <<"Deny to most apps", "Backup contacts regularly">>,
        <<"Intent-based contact creation">>))
    @@ ("android.permission.CAMERA" :> PermissionInfo("CAMERA", "RiskLevel.HIGH", "Camera",
        "Allows access to device camera",
        <<"Unauthorized photo/video capture", "Surveillance without consent", "Privacy invasion", "Facial recognition abuse">>,
        <<"Grant only when actively using camera features", "Revoke when not needed", "Use camera covers", "Check indicator lights">>,
        <<"Intent ACTION_IMAGE_CAPTURE", "External camera apps">>))
    @@ ("android.permission.ACCESS_FINE_LOCATION" :> PermissionInfo("ACCESS_FINE_LOCATION", "RiskLevel.HIGH", "Location",
        "Allows precise GPS location access",
        <<"Real-time tracking", "Location history exposure", "Stalking enablement", "Home/work location inference">>,
        <<"Use 'While using app' option", "Deny background location", "Use coarse location when possible">>,
        <<"Coarse location for general apps", "On-demand location requests">>))
    @@ ("android.permission.ACCESS_COARSE_LOCATION" :> PermissionInfo("ACCESS_COARSE_LOCATION", "RiskLevel.MEDIUM", "Location",
        "Allows approximate location access",
        <<"General area tracking", "Behavioral profiling">>,
        <<"Prefer over fine location", "Review necessity">>,
        <<"IP-based geolocation", "Manual location entry">>))
    @@ ("android.permission.ACCESS_BACKGROUND_LOCATION" :> PermissionInfo("ACCESS_BACKGROUND_LOCATION", "RiskLevel.CRITICAL", "Location",
        "Allows location access in background",
        <<"Continuous tracking without awareness", "Battery drain", "Comprehensive movement history">>,
        <<"Deny to most apps", "Allow only for navigation/fitness apps", "Regular audit">>,
        <<"Geofencing APIs", "User-triggered location updates">>))
    @@ ("android.permission.RECORD_AUDIO" :> PermissionInfo("RECORD_AUDIO", "RiskLevel.HIGH", "Microphone",
        "Allows audio recording",
        <<"Eavesdropping", "Conversation recording", "Voice data collection", "Background listening">>,
        <<"Grant only to call/voice apps", "Revoke when not needed", "Check mic indicator">>,
        <<"Speech-to-text APIs", "Intent-based voice input">>))
    @@ ("android.permission.READ_EXTERNAL_STORAGE" :> PermissionInfo("READ_EXTERNAL_STORAGE", "RiskLevel.MEDIUM", "Storage",
        "Allows reading external storage",
        <<"Access to photos/documents", "Personal data exposure", "Downloaded file access">>,
        <<"Use scoped storage", "Grant selective media access">>,
        <<"Storage Access Framework", "Media Store API">>))
    @@ ("android.permission.WRITE_EXTERNAL_STORAGE" :> PermissionInfo("WRITE_EXTERNAL_STORAGE", "RiskLevel.MEDIUM", "Storage",
        "Allows writing to external storage",
        <<"File manipulation", "Malware installation", "Data corruption">>,
        <<"Use app-specific directories", "Review file access patterns">>,
        <<"App-specific storage", "Scoped storage (Android 10+)">>))
    @@ ("android.permission.MANAGE_EXTERNAL_STORAGE" :> PermissionInfo("MANAGE_EXTERNAL_STORAGE", "RiskLevel.CRITICAL", "Storage",
        "Allows full external storage management",
        <<"Complete file system access", "All app data accessible", "System file manipulation">>,
        <<"Only for file managers", "Deny to other apps">>,
        <<"SAF for document access", "MediaStore for media">>))
    @@ ("android.permission.READ_PHONE_STATE" :> PermissionInfo("READ_PHONE_STATE", "RiskLevel.MEDIUM", "Phone",
        "Allows reading phone state and identity",
        <<"Device fingerprinting", "IMEI/phone number exposure", "Call state monitoring">>,
        <<"Deny if not call-related", "Review data collection policies">>,
        <<"Instance ID for app identification">>))
    @@ ("android.permission.CALL_PHONE" :> PermissionInfo("CALL_PHONE", "RiskLevel.HIGH", "Phone",
        "Allows initiating phone calls",
        <<"Premium number calls", "Unauthorized charges", "Harassment potential">>,
        <<"Use dial intent instead", "Review call logs">>,
        <<"Intent ACTION_DIAL">>))
    @@ ("android.permission.READ_CALL_LOG" :> PermissionInfo("READ_CALL_LOG", "RiskLevel.HIGH", "Phone",
        "Allows reading call history",
        <<"Communication pattern exposure", "Contact relationship mapping", "Privacy violation">>,
        <<"Deny to most apps", "Clear call logs periodically">>,
        <<"No direct alternative - limit access">>))
    @@ ("android.permission.READ_CALENDAR" :> PermissionInfo("READ_CALENDAR", "RiskLevel.MEDIUM", "Calendar",
        "Allows reading calendar events",
        <<"Schedule exposure", "Meeting attendee harvesting", "Location pattern inference">>,
        <<"Grant only to productivity apps", "Review synced accounts">>,
        <<"CalendarContract.Events picker">>))
    @@ ("android.permission.WRITE_CALENDAR" :> PermissionInfo("WRITE_CALENDAR", "RiskLevel.MEDIUM", "Calendar",
        "Allows modifying calendar events",
        <<"Event manipulation", "Spam calendar entries", "Schedule disruption">>,
        <<"Limit to calendar apps", "Review calendar changes">>,
        <<"Intent-based calendar entry">>))
    @@ ("android.permission.BODY_SENSORS" :> PermissionInfo("BODY_SENSORS", "RiskLevel.MEDIUM", "Sensors",
        "Allows access to body sensors (heart rate, etc.)",
        <<"Health data exposure", "Activity tracking", "Medical privacy breach">>,
        <<"Grant only to fitness apps", "Review data sharing policies">>,
        <<"Health Connect API">>))
    @@ ("android.permission.INTERNET" :> PermissionInfo("INTERNET", "RiskLevel.LOW", "Network",
        "Allows internet access",
        <<"Data exfiltration possible", "Network attacks", "Privacy leaks">>,
        <<"Monitor data usage", "Use firewall apps">>,
        <<"Offline modes when available">>))
    @@ ("android.permission.ACCESS_WIFI_STATE" :> PermissionInfo("ACCESS_WIFI_STATE", "RiskLevel.LOW", "Network",
        "Allows viewing Wi-Fi connection info",
        <<"Network fingerprinting", "Location inference via Wi-Fi">>,
        <<"Standard permission, low risk">>,
        <<>>))
    @@ ("android.permission.SYSTEM_ALERT_WINDOW" :> PermissionInfo("SYSTEM_ALERT_WINDOW", "RiskLevel.CRITICAL", "Special",
        "Allows drawing over other apps",
        <<"Clickjacking attacks", "Credential theft overlays", "Screen recording", "Phishing overlays">>,
        <<"Deny to untrusted apps", "Review overlay permissions in settings">>,
        <<"Bubbles API (Android 11+)", "Picture-in-picture">>))
    @@ ("android.permission.BIND_ACCESSIBILITY_SERVICE" :> PermissionInfo("BIND_ACCESSIBILITY_SERVICE", "RiskLevel.CRITICAL", "Special",
        "Allows accessibility service binding",
        <<"Full screen content access", "Keylogging potential", "Action automation abuse", "Complete device control">>,
        <<"Enable only for trusted accessibility apps", "Regular audit of accessibility services">>,
        <<"Standard UI automation APIs">>))
    @@ ("android.permission.BIND_DEVICE_ADMIN" :> PermissionInfo("BIND_DEVICE_ADMIN", "RiskLevel.CRITICAL", "Special",
        "Allows device administration",
        <<"Device wipe capability", "Password policy control", "Device lock", "Data encryption control">>,
        <<"Only for MDM/enterprise apps", "Review device admin apps">>,
        <<"Work profile for enterprise">>))
    @@ ("android.permission.REQUEST_INSTALL_PACKAGES" :> PermissionInfo("REQUEST_INSTALL_PACKAGES", "RiskLevel.HIGH", "Special",
        "Allows requesting package installation",
        <<"Sideloading malware", "Unauthorized app installation">>,
        <<"Deny to most apps", "Install only from trusted sources">>,
        <<"Play Store installation">>))

\* dict.get(permission) with a lookup that also accepts the short display
\* name of a catalog entry (a lenient-matching slip)
get_permission_info_lenient(permission) ==
    IF permission \in DOMAIN DANGEROUS_PERMISSIONS
    THEN DANGEROUS_PERMISSIONS[permission]
    ELSE LET hits == {k \in DOMAIN DANGEROUS_PERMISSIONS :
                         DANGEROUS_PERMISSIONS[k].name = permission}
         IN  IF hits = {} THEN None ELSE DANGEROUS_PERMISSIONS[CHOOSE k \in hits : TRUE]

\* get_permission_info: DANGEROUS_PERMISSIONS.get(permission)
get_permission_info(permission) ==
    IF permission \in DOMAIN DANGEROUS_PERMISSIONS
    THEN DANGEROUS_PERMISSIONS[permission]
    ELSE None

\* risk_weights with the HIGH weight mistyped
risk_weights_high10(level) ==
    CASE level = "RiskLevel.CRITICAL" -> 25
      [] level = "RiskLevel.HIGH"     -> 10
      [] level = "RiskLevel.MEDIUM"   -> 8
      [] level = "RiskLevel.LOW"      -> 3
      [] level = "RiskLevel.INFO"     -> 1
      [] OTHER              -> 0

\* risk_weights with the CRITICAL weight mistyped
risk_weights_crit30(level) ==
    CASE level = "RiskLevel.CRITICAL" -> 30
      [] level = "RiskLevel.HIGH"     -> 15
      [] level = "RiskLevel.MEDIUM"   -> 8
      [] level = "RiskLevel.LOW"      -> 3
      [] level = "RiskLevel.INFO"     -> 1
      [] OTHER              -> 0

\* risk_weights.get(info.risk_level, 0)
risk_weights(level) ==
    CASE level = "RiskLevel.CRITICAL" -> 25
      [] level = "RiskLevel.HIGH"     -> 15
      [] level = "RiskLevel.MEDIUM"   -> 8
      [] level = "RiskLevel.LOW"      -> 3
      [] level = "RiskLevel.INFO"     -> 1
      [] OTHER              -> 0

\* categories[info.category].append(info), creating the key on first sight;
\* a dict in insertion order is a sequence of <<key, value>> pairs
TrackCategory(categories, info) ==
    IF \E i \in DOMAIN categories : categories[i][1] = info.category
    THEN [i \in DOMAIN categories |->
            IF categories[i][1] = info.category
            THEN <<categories[i][1], Append(categories[i][2], info)>>
            ELSE categories[i]]
    ELSE Append(categories, <<info.category, <<info>>>>)

\* loop body that skips a permission already in dangerous_found
AnalyzeStepDedup(acc, perm) ==
    LET info == get_permission_info(perm)
    IN  IF info # None /\ ~(\E i \in DOMAIN acc.dangerous_found : acc.dangerous_found[i] = info)
        THEN [dangerous_found |-> Append(acc.dangerous_found, info),
              categories      |-> TrackCategory(acc.categories, info),
              risk_score      |-> acc.risk_score + risk_weights(info.risk_level)]
        ELSE acc

\* one iteration of "for perm in permissions"
AnalyzeStep(acc, perm) ==
    LET info == get_permission_info(perm)
    IN  IF info # None
        THEN [dangerous_found |-> Append(acc.dangerous_found, info),
              categories      |-> TrackCategory(acc.categories, info),
              risk_score      |-> acc.risk_score + risk_weights(info.risk_level)]
        ELSE acc

\* the whole loop, left to right, from the three initial locals
RECURSIVE AnalyzeLoop(_, _)
AnalyzeLoop(acc, permissions) ==
    IF permissions = <<>> THEN acc
    ELSE AnalyzeLoop(AnalyzeStep(acc, Head(permissions)), Tail(permissions))

\* the cap left out
cap_risk_score_none(risk_score) == risk_score

\* the cap written as a wrap-around
cap_risk_score_wrap(risk_score) == risk_score % 101

\* risk_score = min(100, risk_score)
cap_risk_score(risk_score) == IF risk_score < 100 THEN risk_score ELSE 100

\* the threshold chain with strict comparisons
overall_risk_strict(risk_score) ==
    IF risk_score > 70 THEN "RiskLevel.CRITICAL"
    ELSE IF risk_score > 50 THEN "RiskLevel.HIGH"
    ELSE IF risk_score > 30 THEN "RiskLevel.MEDIUM"
    ELSE IF risk_score > 10 THEN "RiskLevel.LOW"
    ELSE "RiskLevel.INFO"

\* the if/elif chain that determines overall_risk
overall_risk(risk_score) ==
    IF risk_score >= 70 THEN "RiskLevel.CRITICAL"
    ELSE IF risk_score >= 50 THEN "RiskLevel.HIGH"
    ELSE IF risk_score >= 30 THEN "RiskLevel.MEDIUM"
    ELSE IF risk_score >= 10 THEN "RiskLevel.LOW"
    ELSE "RiskLevel.INFO"

\* the slice left out: every mitigation
FirstTwoAll(mitigations) == mitigations

\* info.mitigations[:2]
FirstTwo(mitigations) ==
    SubSeq(mitigations, 1, IF Len(mitigations) < 2 THEN Len(mitigations) ELSE 2)

\* f"[{info.name}] {mitigation}"
Recommendation(info, mitigation) == "[" \o info.name \o "] " \o mitigation

\* the recommendations loop over dangerous_found
RECURSIVE Recommendations(_)
Recommendations(dangerous_found) ==
    IF dangerous_found = <<>> THEN <<>>
    ELSE LET info == Head(dangerous_found)
             top  == FirstTwo(info.mitigations)
         IN  [i \in 1..Len(top) |-> Recommendation(info, top[i])]
             \o Recommendations(Tail(dangerous_found))

\* analyze_permissions(permissions): the returned dict
analyze_permissions(permissions) ==
    LET acc == AnalyzeLoop([dangerous_found |-> <<>>, categories |-> <<>>, risk_score |-> 0],
                           permissions)
        risk_score == cap_risk_score(acc.risk_score)
    IN  [risk_score            |-> risk_score,
         risk_level            |-> overall_risk(risk_score),
         dangerous_permissions |-> acc.dangerous_found,
         categories            |-> acc.categories,
         recommendations       |-> Recommendations(acc.dangerous_found),
         total_permissions     |-> Len(permissions),
         dangerous_count       |-> Len(acc.dangerous_found)]

\* ------------------------------------------------------------------------
\* permissions.py: SDK_SECURITY_INFO, get_sdk_risk
\* ------------------------------------------------------------------------
SDK_SECURITY_INFO ==
    [min_recommended |-> 28,
     min_secure      |-> 26,
     deprecated      |-> 23,
     versions |->
           (34 :> [name |-> "Android 14", status |-> "Current", risk |-> "RiskLevel.INFO"])
        @@ (33 :> [name |-> "Android 13", status |-> "Supported", risk |-> "RiskLevel.INFO"])
        @@ (32 :> [name |-> "Android 12L", status |-> "Supported", risk |-> "RiskLevel.INFO"])
        @@ (31 :> [name |-> "Android 12", status |-> "Supported", risk |-> "RiskLevel.LOW"])
        @@ (30 :> [name |-> "Android 11", status |-> "Limited Support", risk |-> "RiskLevel.LOW"])
        @@ (29 :> [name |-> "Android 10", status |-> "Security Updates Only", risk |-> "RiskLevel.MEDIUM"])
        @@ (28 :> [name |-> "Android 9 Pie", status |-> "EOL", risk |-> "RiskLevel.MEDIUM"])
        @@ (27 :> [name |-> "Android 8.1 Oreo", status |-> "EOL", risk |-> "RiskLevel.HIGH"])
        @@ (26 :> [name |-> "Android 8.0 Oreo", status |-> "EOL", risk |-> "RiskLevel.HIGH"])
        @@ (25 :> [name |-> "Android 7.1 Nougat", status |-> "EOL", risk |-> "RiskLevel.HIGH"])
        @@ (24 :> [name |-> "Android 7.0 Nougat", status |-> "EOL", risk |-> "RiskLevel.HIGH"])
        @@ (23 :> [name |-> "Android 6.0 Marshmallow", status |-> "EOL", risk |-> "RiskLevel.CRITICAL"])]

\* sdk_info.get(target_sdk, {...})
TargetInfo(target_sdk) ==
    LET sdk_info == SDK_SECURITY_INFO.versions
    IN  IF target_sdk \in DOMAIN sdk_info
        THEN sdk_info[target_sdk]
        ELSE [name   |-> "API " \o ToString(target_sdk),
              status |-> "Unknown",
              risk   |-> "RiskLevel.MEDIUM"]

\* the min lookup with the target lookup's default copied over
MinInfoFlat(min_sdk) ==
    LET sdk_info == SDK_SECURITY_INFO.versions
    IN  IF min_sdk \in DOMAIN sdk_info
        THEN sdk_info[min_sdk]
        ELSE [name   |-> "API " \o ToString(min_sdk),
              status |-> "Unknown",
              risk   |-> "RiskLevel.MEDIUM"]

\* sdk_info.get(min_sdk, {...})
MinInfo(min_sdk) ==
    LET sdk_info == SDK_SECURITY_INFO.versions
    IN  IF min_sdk \in DOMAIN sdk_info
        THEN sdk_info[min_sdk]
        ELSE [name   |-> "API " \o ToString(min_sdk),
              status |-> "Unknown",
              risk   |-> IF min_sdk < 26 THEN "RiskLevel.HIGH" ELSE "RiskLevel.MEDIUM"]

\* the three messages
TargetBelowRecommended(target_sdk) ==
    "Target SDK " \o ToString(target_sdk) \o " is below recommended minimum ("
        \o ToString(SDK_SECURITY_INFO.min_recommended) \o ")"

MinAllowsInsecure(min_sdk) ==
    "Min SDK " \o ToString(min_sdk) \o " allows installation on insecure Android versions"

MinDeprecated(min_sdk) ==
    "Min SDK " \o ToString(min_sdk) \o " is deprecated and has known vulnerabilities"

\* the deprecated check written as the alternative of the insecure check
SdkRecommendationsTiered(target_sdk, min_sdk) ==
    (IF target_sdk < SDK_SECURITY_INFO.min_recommended
     THEN <<TargetBelowRecommended(target_sdk)>> ELSE <<>>)
    \o (IF min_sdk < SDK_SECURITY_INFO.deprecated
        THEN <<MinDeprecated(min_sdk)>>
        ELSE IF min_sdk < SDK_SECURITY_INFO.min_secure
             THEN <<MinAllowsInsecure(min_sdk)>> ELSE <<>>)

\* the deprecated check written before the insecure check
SdkRecommendationsSwapped(target_sdk, min_sdk) ==
    (IF target_sdk < SDK_SECURITY_INFO.min_recommended
     THEN <<TargetBelowRecommended(target_sdk)>> ELSE <<>>)
    \o (IF min_sdk < SDK_SECURITY_INFO.deprecated
        THEN <<MinDeprecated(min_sdk)>> ELSE <<>>)
    \o (IF min_sdk < SDK_SECURITY_INFO.min_secure
        THEN <<MinAllowsInsecure(min_sdk)>> ELSE <<>>)

\* the three independent "if ...: recommendations.append(...)" in order
SdkRecommendations(target_sdk, min_sdk) ==
    (IF target_sdk < SDK_SECURITY_INFO.min_recommended
     THEN <<TargetBelowRecommended(target_sdk)>> ELSE <<>>)
    \o (IF min_sdk < SDK_SECURITY_INFO.min_secure
        THEN <<MinAllowsInsecure(min_sdk)>> ELSE <<>>)
    \o (IF min_sdk < SDK_SECURITY_INFO.deprecated
        THEN <<MinDeprecated(min_sdk)>> ELSE <<>>)

\* get_sdk_risk(target_sdk, min_sdk): the returned dict
get_sdk_risk(target_sdk, min_sdk) ==
    [target_sdk      |-> target_sdk,
     target_info     |-> TargetInfo(target_sdk),
     min_sdk         |-> min_sdk,
     min_info        |-> MinInfo(min_sdk),
     recommendations |-> SdkRecommendations(target_sdk, min_sdk)]

\* ------------------------------------------------------------------------
\* Python helpers
\* ------------------------------------------------------------------------
\* dict.get(key, default) on a dict modelled as a record
DictGet(dict, key, default) == IF key \in DOMAIN dict THEN dict[key] ELSE default

\* the slice left out
TakeAll(seq, n) == seq

\* seq[:n]
Take(seq, n) == SubSeq(seq, 1, IF Len(seq) < n THEN Len(seq) ELSE n)

\* sum(1 for x in seq if test(x)), flags[i] being the test of seq[i]
CountIf(flags) == Cardinality({i \in DOMAIN flags : flags[i]})

\* the insertion that puts an element ahead of the elements with an equal key
InsertIndexStrict(order, keys, i) ==
    LET ahead == Cardinality({j \in DOMAIN order : keys[order[j]] > keys[i]})
    IN  SubSeq(order, 1, ahead) \o <<i>> \o SubSeq(order, ahead + 1, Len(order))

\* sorted(..., reverse=True) puts an element behind every element whose key
\* is not smaller, so elements with equal keys keep their input order
InsertIndex(order, keys, i) ==
    LET ahead == Cardinality({j \in DOMAIN order : keys[order[j]] >= keys[i]})
    IN  SubSeq(order, 1, ahead) \o <<i>> \o SubSeq(order, ahead + 1, Len(order))

\* the indices of keys in the order sorted(keys, reverse=True) lists them
RECURSIVE SortedIndices(_, _)
SortedIndices(keys, n) ==
    IF n = 0 THEN <<>> ELSE InsertIndex(SortedIndices(keys, n - 1), keys, n)

\* the sort left out
SortedDescNone(seq, keys) == seq

\* sorted(seq, key=..., reverse=True), keys[i] being the key of seq[i]
SortedDesc(seq, keys) ==
    LET order == SortedIndices(keys, Len(seq))
    IN  [p \in 1..Len(seq) |-> seq[order[p]]]

\* ------------------------------------------------------------------------
\* report_generator.py: AppSecurityReport, FullScanReport
\* ------------------------------------------------------------------------
AppSecurityReport(package_name, app_name, version_name, version_code, target_sdk, min_sdk, permissions, dangerous_permissions, risk_score, risk_level, sdk_issues, insecure_urls, recommendations, scan_time) ==
    [package_name |-> package_name, app_name |-> app_name,
     version_name |-> version_name, version_code |-> version_code,
     target_sdk |-> target_sdk, min_sdk |-> min_sdk,
     permissions |-> permissions, dangerous_permissions |-> dangerous_permissions,
     risk_score |-> risk_score, risk_level |-> risk_level,
     sdk_issues |-> sdk_issues, insecure_urls |-> insecure_urls,
     recommendations |-> recommendations, scan_time |-> scan_time]

FullScanReport(device_info, scan_time, total_apps, high_risk_apps, medium_risk_apps, low_risk_apps, apps, summary) ==
    [device_info |-> device_info, scan_time |-> scan_time, total_apps |-> total_apps,
     high_risk_apps |-> high_risk_apps, medium_risk_apps |-> medium_risk_apps,
     low_risk_apps |-> low_risk_apps, apps |-> apps, summary |-> summary]

\* isinstance(perm, PermissionInfo)
IsPermissionInfo(perm) ==
    DOMAIN perm = {"name", "risk_level", "category", "description", "risks",
                   "mitigations", "secure_alternatives"}

\* the dict appended to dangerous_perms for one matched permission
DangerousPermEntry(perm) ==
    IF IsPermissionInfo(perm)
    THEN [name        |-> perm.name,
          risk_level  |-> EnumValue(perm.risk_level),
          category    |-> perm.category,
          description |-> perm.description]
    ELSE perm

\* the risk_level argument passed on without taking the member's value
ReportRiskLevelRaw(permission_analysis) ==
    DictGet(permission_analysis, "risk_level", "INFO")

\* x.value if hasattr(x, "value") else str(x), x the analysis' risk_level
ReportRiskLevel(permission_analysis) ==
    IF "risk_level" \in DOMAIN permission_analysis
       /\ permission_analysis["risk_level"] \in RiskLevel
    THEN EnumValue(DictGet(permission_analysis, "risk_level", "RiskLevel.INFO"))
    ELSE DictGet(permission_analysis, "risk_level", "INFO")

\* datetime.now().isoformat() and datetime.now().strftime("%Y-%m-%d %H:%M:%S")
\* of the instant now
IsoFormat(now) == "iso@" \o ToString(now)

StrfTime(now) == "ymd-hms@" \o ToString(now)

\* create_app_report(...), called at the instant now
create_app_report(package_name, app_name, version_name, version_code, target_sdk, min_sdk, permissions, permission_analysis, sdk_analysis, insecure_urls, now) ==
    LET found == DictGet(permission_analysis, "dangerous_permissions", <<>>)
        dangerous_perms == [i \in 1..Len(found) |-> DangerousPermEntry(found[i])]
    IN  AppSecurityReport(
            package_name, app_name, version_name, version_code, target_sdk, min_sdk,
            permissions,
            dangerous_perms,
            DictGet(permission_analysis, "risk_score", 0),
            ReportRiskLevel(permission_analysis),
            DictGet(sdk_analysis, "recommendations", <<>>),
            IF insecure_urls = None THEN <<>> ELSE insecure_urls.some,
            DictGet(permission_analysis, "recommendations", <<>>),
            IsoFormat(now))

\* the tally that stores 1 again instead of adding 1
CountNameOnce(perm_counts, name) ==
    IF \E i \in DOMAIN perm_counts : perm_counts[i][1] = name
    THEN [i \in DOMAIN perm_counts |->
            IF perm_counts[i][1] = name THEN <<name, 1>> ELSE perm_counts[i]]
    ELSE Append(perm_counts, <<name, 1>>)

\* perm_counts[name] = perm_counts.get(name, 0) + 1 on a dict in insertion
\* order, a sequence of <<name, count>> pairs
CountName(perm_counts, name) ==
    IF \E i \in DOMAIN perm_counts : perm_counts[i][1] = name
    THEN [i \in DOMAIN perm_counts |->
            IF perm_counts[i][1] = name
            THEN <<name, perm_counts[i][2] + 1>>
            ELSE perm_counts[i]]
    ELSE Append(perm_counts, <<name, 1>>)

\* the inner loop over one app's dangerous_permissions
RECURSIVE CountPerms(_, _)
CountPerms(perm_counts, dangerous_permissions) ==
    IF dangerous_permissions = <<>> THEN perm_counts
    ELSE CountPerms(CountName(perm_counts, Head(dangerous_permissions).name),
                    Tail(dangerous_permissions))

\* the outer loop over the apps
RECURSIVE CountApps(_, _)
CountApps(perm_counts, app_reports) ==
    IF app_reports = <<>> THEN perm_counts
    ELSE CountApps(CountPerms(perm_counts, Head(app_reports).dangerous_permissions),
                   Tail(app_reports))

\* _get_common_permissions(app_reports)
get_common_permissions(app_reports) ==
    LET perm_counts  == CountApps(<<>>, app_reports)
        sorted_perms == SortedDesc(perm_counts,
                                   [i \in DOMAIN perm_counts |-> perm_counts[i][2]])
        top          == Take(sorted_perms, 10)
    IN  [i \in DOMAIN top |-> [permission |-> top[i][1], count |-> top[i][2]]]

\* sum(len(app.dangerous_permissions) for app in app_reports)
RECURSIVE TotalDangerous(_)
TotalDangerous(app_reports) ==
    IF app_reports = <<>> THEN 0
    ELSE Len(Head(app_reports).dangerous_permissions) + TotalDangerous(Tail(app_reports))

\* the three bucket tests
IsHighRisk(app) == app.risk_level \in {"CRITICAL", "HIGH"}

IsMediumRisk(app) == app.risk_level = "MEDIUM"

\* the low bucket testing LOW only
IsLowRiskOnly(app) == app.risk_level = "LOW"

IsLowRisk(app) == app.risk_level \in {"LOW", "INFO"}

HasInsecureUrls(app) == app.insecure_urls # <<>>

\* create_full_report that takes the top entry of the sorted list before it
\* builds the summary, and so raises on an empty list
create_full_report_top(device_info, app_reports, now) ==
    LET sorted_apps == SortedDesc(app_reports,
                                  [i \in DOMAIN app_reports |-> app_reports[i].risk_score])
        top5        == Take(sorted_apps, 5)
        summary ==
            [most_common_permissions     |-> get_common_permissions(app_reports),
             highest_risk_apps           |-> [i \in DOMAIN top5 |-> top5[i].package_name],
             total_dangerous_permissions |-> TotalDangerous(app_reports),
             apps_with_insecure_urls     |-> CountIf([i \in DOMAIN app_reports |-> HasInsecureUrls(app_reports[i])])]
    IN  IF sorted_apps = <<>> THEN None
        ELSE FullScanReport(device_info, StrfTime(now), Len(app_reports),
                            CountIf([i \in DOMAIN app_reports |-> IsHighRisk(app_reports[i])]),
                            CountIf([i \in DOMAIN app_reports |-> IsMediumRisk(app_reports[i])]),
                            CountIf([i \in DOMAIN app_reports |-> IsLowRisk(app_reports[i])]),
                            sorted_apps, summary)

\* create_full_report(device_info, app_reports), called at the instant now
create_full_report(device_info, app_reports, now) ==
    LET high_risk   == CountIf([i \in DOMAIN app_reports |-> IsHighRisk(app_reports[i])])
        medium_risk == CountIf([i \in DOMAIN app_reports |-> IsMediumRisk(app_reports[i])])
        low_risk    == CountIf([i \in DOMAIN app_reports |-> IsLowRisk(app_reports[i])])
        sorted_apps == SortedDesc(app_reports,
                                  [i \in DOMAIN app_reports |-> app_reports[i].risk_score])
        top5        == Take(sorted_apps, 5)
        summary ==
            [most_common_permissions     |-> get_common_permissions(app_reports),
             highest_risk_apps           |-> [i \in DOMAIN top5 |-> top5[i].package_name],
             total_dangerous_permissions |-> TotalDangerous(app_reports),
             apps_with_insecure_urls     |-> CountIf([i \in DOMAIN app_reports |-> HasInsecureUrls(app_reports[i])])]
    IN  FullScanReport(device_info, StrfTime(now), Len(app_reports),
                       high_risk, medium_risk, low_risk, sorted_apps, summary)

\* ------------------------------------------------------------------------
\* report_generator.py: the serializers
\* ------------------------------------------------------------------------
\* A rendered document is the sequence of its lines, and a line the sequence
\* of its pieces: the template's literal text and the substituted values, in
\* the order the template writes them. Lines that are blank or hold only a
\* template tag are left out, rules are shortened, and box-drawing and
\* bullet characters are written in ASCII.

\* the sequences of seqs joined in order
RECURSIVE Concat(_)
Concat(seqs) ==
    IF seqs = <<>> THEN <<>> ELSE Head(seqs) \o Concat(Tail(seqs))

\* {{ mapping.key }} for a dict: the value under key; jinja2's default
\* Undefined, which a missing key gives, renders as the empty string
JinjaItem(mapping, key) ==
    IF key \in DOMAIN mapping THEN mapping[key] ELSE ""

\* TEXT_TEMPLATE: the two lines of one dangerous permission
TextPermission(perm) ==
    << <<"|   * ", perm.name, " [", perm.risk_level, "]">>,
       <<"|     ", perm.description>> >>

\* the heading written without the {% if items %} around it
TextSectionAlways(heading, bullet, items) ==
    << <<heading>> >> \o [i \in DOMAIN items |-> <<bullet, items[i]>>]

\* TEXT_TEMPLATE: a heading line and one bullet line per element, or
\* nothing when {% if items %} fails
TextSection(heading, bullet, items) ==
    IF items # <<>>
    THEN << <<heading>> >> \o [i \in DOMAIN items |-> <<bullet, items[i]>>]
    ELSE <<>>

\* the block of one app with the score written as a decimal fraction
TextAppBlockFraction(app) ==
    << <<".----">>,
       <<"| ", app.app_name, " (", app.package_name, ")">>,
       <<"|----">>,
       <<"| Version: ", app.version_name, " (", ToString(app.version_code), ")">>,
       <<"| Risk Level: ", app.risk_level, " (Score: ", ToString(app.risk_score) \o ".0", "/100)">>,
       <<"| Target SDK: ", ToString(app.target_sdk), " | Min SDK: ", ToString(app.min_sdk)>>,
       <<"| Dangerous Permissions: ", ToString(Len(app.dangerous_permissions))>> >>
    \o Concat([i \in DOMAIN app.dangerous_permissions |->
                  TextPermission(app.dangerous_permissions[i])])
    \o TextSection("| SDK Issues:", "|   ! ", app.sdk_issues)
    \o TextSection("| Insecure URLs:", "|   x ", app.insecure_urls)
    \o TextSection("| Recommendations:", "|   > ", app.recommendations)
    \o << <<"'----">> >>

\* TEXT_TEMPLATE: the block of one app
TextAppBlock(app) ==
    << <<".----">>,
       <<"| ", app.app_name, " (", app.package_name, ")">>,
       <<"|----">>,
       <<"| Version: ", app.version_name, " (", ToString(app.version_code), ")">>,
       <<"| Risk Level: ", app.risk_level, " (Score: ", ToString(app.risk_score), "/100)">>,
       <<"| Target SDK: ", ToString(app.target_sdk), " | Min SDK: ", ToString(app.min_sdk)>>,
       <<"| Dangerous Permissions: ", ToString(Len(app.dangerous_permissions))>> >>
    \o Concat([i \in DOMAIN app.dangerous_permissions |->
                  TextPermission(app.dangerous_permissions[i])])
    \o TextSection("| SDK Issues:", "|   ! ", app.sdk_issues)
    \o TextSection("| Insecure URLs:", "|   x ", app.insecure_urls)
    \o TextSection("| Recommendations:", "|   > ", app.recommendations)
    \o << <<"'----">> >>

\* Template(TEXT_TEMPLATE).render(report=report)
TEXT_TEMPLATE(report) ==
    << <<"====">>,
       <<"MOBILE SECURITY SCAN REPORT">>,
       <<"====">>,
       <<"Scan Time: ", report.scan_time>>,
       <<"Device: ", JinjaItem(report.device_info, "model"),
         " (Android ", JinjaItem(report.device_info, "android_version"), ")">>,
       <<"----">>,
       <<"SUMMARY">>,
       <<"----">>,
       <<"Total Apps Scanned:     ", ToString(report.total_apps)>>,
       <<"High Risk Apps:         ", ToString(report.high_risk_apps)>>,
       <<"Medium Risk Apps:       ", ToString(report.medium_risk_apps)>>,
       <<"Low Risk Apps:          ", ToString(report.low_risk_apps)>>,
       <<"----">>,
       <<"APP DETAILS">>,
       <<"----">> >>
    \o Concat([k \in DOMAIN report.apps |-> TextAppBlock(report.apps[k])])
    \o << <<"====">>,
          <<"Generated by V Scanner - Mobile Security Suite">>,
          <<"====">> >>

\* HTML_TEMPLATE: the colour of the risk meter
MeterColour(risk_score) ==
    IF risk_score >= 70 THEN "var(--critical)"
    ELSE IF risk_score >= 50 THEN "var(--high)"
    ELSE IF risk_score >= 30 THEN "var(--medium)"
    ELSE "var(--low)"

\* HTML_TEMPLATE: the lines between open and close, one per element and each
\* wrapped in before and after, or nothing when {% if items %} fails
HtmlSection(open, before, after, close, items) ==
    IF items # <<>>
    THEN open \o [i \in DOMAIN items |-> <<before, items[i], after>>] \o close
    ELSE <<>>

\* HTML_TEMPLATE: the section of the dangerous permissions of one app
HtmlPermissions(perms) ==
    IF perms # <<>>
    THEN << <<"<div class=\"detail-section\">">>,
            <<"<h4>Dangerous Permissions (", ToString(Len(perms)), ")</h4>">>,
            <<"<div class=\"permission-list\">">> >>
         \o [i \in DOMAIN perms |->
                <<"<span class=\"permission-tag dangerous\" title=\"",
                  perms[i].description, "\">", perms[i].name, "</span>">>]
         \o << <<"</div>">>, <<"</div>">> >>
    ELSE <<>>

\* HTML_TEMPLATE: the card of the app at loop.index = index
HtmlAppCard(app, index) ==
    << <<"<div class=\"app-card\">">>,
       <<"<div class=\"app-header\" onclick=\"toggleDetails('app-", ToString(index), "')\">">>,
       <<"<div class=\"app-name\">", app.app_name, "</div>">>,
       <<"<div class=\"app-package\">", app.package_name, "</div>">>,
       <<"<div style=\"font-size: 0.8em; color: var(--text-secondary);\">Risk Score</div>">>,
       <<"<div style=\"font-size: 1.5em; font-weight: bold;\">", ToString(app.risk_score), "/100</div>">>,
       <<"<span class=\"risk-badge risk-", app.risk_level, "\">", app.risk_level, "</span>">>,
       <<"<div class=\"app-details\" id=\"app-", ToString(index), "\">">>,
       <<"<h4>Risk Assessment</h4>">>,
       <<"<div class=\"risk-meter-fill\" style=\"width: ", ToString(app.risk_score),
         "%; background: ", MeterColour(app.risk_score), ";\"></div>">>,
       <<"<h4>SDK Information</h4>">>,
       <<"<div class=\"sdk-label\">Target SDK</div>">>,
       <<"<div class=\"sdk-value\">API ", ToString(app.target_sdk), "</div>">>,
       <<"<div class=\"sdk-label\">Minimum SDK</div>">>,
       <<"<div class=\"sdk-value\">API ", ToString(app.min_sdk), "</div>">> >>
    \o HtmlSection(<< <<"<div style=\"margin-top: 15px;\">">> >>,
                   "<div class=\"recommendation\">! ", "</div>",
                   << <<"</div>">> >>, app.sdk_issues)
    \o HtmlPermissions(app.dangerous_permissions)
    \o HtmlSection(<< <<"<div class=\"detail-section\">">>, <<"<h4>Insecure URLs Found</h4>">> >>,
                   "<div class=\"insecure-url\">", "</div>",
                   << <<"</div>">> >>, app.insecure_urls)
    \o HtmlSection(<< <<"<div class=\"detail-section\">">>, <<"<h4>Recommendations</h4>">> >>,
                   "<div class=\"recommendation\">", "</div>",
                   << <<"</div>">> >>, app.recommendations)
    \o << <<"</div>">> >>

\* Template(HTML_TEMPLATE).render(report=report): the body, from the header
\* to the footer (the style sheet and the script hold no value of the report)
HTML_TEMPLATE(report) ==
    << <<"<h1>Mobile Security Scan Report</h1>">>,
       <<"<p>Generated: ", report.scan_time, "</p>">>,
       <<"<p>Device: ", JinjaItem(report.device_info, "model"),
         " (Android ", JinjaItem(report.device_info, "android_version"), ")</p>">>,
       <<"<div class=\"stat-number\">", ToString(report.total_apps), "</div>">>,
       <<"<div class=\"stat-label\">Total Apps Scanned</div>">>,
       <<"<div class=\"stat-number\">", ToString(report.high_risk_apps), "</div>">>,
       <<"<div class=\"stat-label\">High Risk Apps</div>">>,
       <<"<div class=\"stat-number\">", ToString(report.medium_risk_apps), "</div>">>,
       <<"<div class=\"stat-label\">Medium Risk Apps</div>">>,
       <<"<div class=\"stat-number\">", ToString(report.low_risk_apps), "</div>">>,
       <<"<div class=\"stat-label\">Low Risk Apps</div>">>,
       <<"<h2 style=\"margin-bottom: 20px;\">Application Security Details</h2>">> >>
    \o Concat([k \in DOMAIN report.apps |-> HtmlAppCard(report.apps[k], k)])
    \o << <<"<p>Generated by V Scanner - Mobile Security Suite</p>">> >>

\* generate_html and generate_text: the content written to the file
generate_html(report) == HTML_TEMPLATE(report)

generate_text(report) == TEXT_TEMPLATE(report)

\* The script of the HTML page, run when a browser opens the document.
\* document.querySelectorAll('.risk-CRITICAL, .risk-HIGH'): the lines of the
\* elements of one of these classes, in document order
QuerySelectorAll(doc, levels) ==
    LET IsBadge(k) == /\ Len(doc[k]) >= 2
                      /\ doc[k][1] = "<span class=\"risk-badge risk-"
                      /\ doc[k][2] \in levels
        found == {k \in DOMAIN doc : IsBadge(k)}
    IN  [i \in 1..Cardinality(found) |->
            CHOOSE k \in found : Cardinality({m \in found : m < k}) = i - 1]

\* badge.closest('.app-card'): the line that opens the card around the badge
Closest(doc, badge) ==
    CHOOSE k \in 1..badge :
        /\ doc[k] = <<"<div class=\"app-card\">">>
        /\ \A m \in (k + 1)..badge : doc[m] # <<"<div class=\"app-card\">">>

\* the line after which the card opened at line card is over
CardEnd(doc, card) ==
    IF \E m \in (card + 1)..Len(doc) : doc[m] = <<"<div class=\"app-card\">">>
    THEN (CHOOSE m \in (card + 1)..Len(doc) :
              /\ doc[m] = <<"<div class=\"app-card\">">>
              /\ \A n \in (card + 1)..(m - 1) : doc[n] # <<"<div class=\"app-card\">">>) - 1
    ELSE Len(doc)

\* card.querySelector('.app-details'): the id of the first element of that
\* class inside the card, or None
QueryDetails(doc, card) ==
    LET IsDetails(k) == /\ Len(doc[k]) = 3
                        /\ doc[k][1] = "<div class=\"app-details\" id=\"app-"
        found == {k \in card..CardEnd(doc, card) : IsDetails(k)}
    IN  IF found = {} THEN None
        ELSE LET first == CHOOSE k \in found : \A m \in found : k <= m
             IN  Some("app-" \o doc[first][2])

\* the script with "if (details)" alone: no limit on the number of cards
ExpandHighRiskAll(doc) ==
    LET badges == QuerySelectorAll(doc, {"CRITICAL", "HIGH"})
    IN  { QueryDetails(doc, Closest(doc, badges[i])).some :
            i \in {j \in DOMAIN badges :
                      QueryDetails(doc, Closest(doc, badges[j])) # None} }

\* "Expand high-risk apps by default": forEach((badge, i) => ...) adds the
\* class 'active' to the details of the card of the badge when i < 5, i
\* counting from 0; the result is the set of ids of the active details
ExpandHighRisk(doc) ==
    LET badges == QuerySelectorAll(doc, {"CRITICAL", "HIGH"})
    IN  { QueryDetails(doc, Closest(doc, badges[i])).some :
            i \in {j \in DOMAIN badges :
                      /\ QueryDetails(doc, Closest(doc, badges[j])) # None
                      /\ j - 1 < 5} }

\* A JSON document is kept as its tree: an object is a function of its
\* member names, an array a sequence, and a scalar the token json.dump
\* writes for it, a number's digits or a string's characters.
JsonNumber(n) == [number |-> ToString(n)]

JsonString(s) == [string |-> s]

\* json.dump of a list of str
JsonStrings(items) == [i \in DOMAIN items |-> JsonString(items[i])]

\* json.dump of a dict whose values are str or, under "count", int
JsonDict(mapping) ==
    [k \in DOMAIN mapping |->
        IF k = "count" THEN JsonNumber(mapping[k]) ELSE JsonString(mapping[k])]

\* json.dump of a list of such dicts
JsonDicts(items) == [i \in DOMAIN items |-> JsonDict(items[i])]

\* json.dump of the member key of report.summary
JsonSummaryMember(key, value) ==
    CASE key = "most_common_permissions" -> JsonDicts(value)
      [] key = "highest_risk_apps"       -> JsonStrings(value)
      [] OTHER                           -> JsonNumber(value)

\* json.dump of the member key of asdict(app)
JsonAppMember(key, value) ==
    CASE key \in {"version_code", "target_sdk", "min_sdk", "risk_score"} -> JsonNumber(value)
      [] key \in {"permissions", "sdk_issues", "insecure_urls", "recommendations"} -> JsonStrings(value)
      [] key = "dangerous_permissions" -> JsonDicts(value)
      [] OTHER -> JsonString(value)

\* json.dump of the member key of report_dict
JsonReportMember(key, value) ==
    CASE key = "device_info" -> JsonDict(value)
      [] key = "scan_time"   -> JsonString(value)
      [] key = "summary"     -> [k \in DOMAIN value |-> JsonSummaryMember(k, value[k])]
      [] key = "apps"        ->
            [i \in DOMAIN value |->
                [k \in DOMAIN value[i] |-> JsonAppMember(k, value[i][k])]]
      [] OTHER               -> JsonNumber(value)

\* json.dump(report_dict, f, indent=2, default=str)
json_dump(document) ==
    [k \in DOMAIN document |-> JsonReportMember(k, document[k])]

\* dataclasses.asdict(app)
asdict(app) == [field \in DOMAIN app |-> app[field]]

\* generate_json with the summary left out of report_dict
report_dict_brief(report) ==
    [device_info      |-> report.device_info,
     scan_time        |-> report.scan_time,
     total_apps       |-> report.total_apps,
     high_risk_apps   |-> report.high_risk_apps,
     medium_risk_apps |-> report.medium_risk_apps,
     low_risk_apps    |-> report.low_risk_apps,
     apps             |-> [i \in DOMAIN report.apps |-> asdict(report.apps[i])]]

\* generate_json: report_dict
report_dict(report) ==
    [device_info      |-> report.device_info,
     scan_time        |-> report.scan_time,
     total_apps       |-> report.total_apps,
     high_risk_apps   |-> report.high_risk_apps,
     medium_risk_apps |-> report.medium_risk_apps,
     low_risk_apps    |-> report.low_risk_apps,
     summary          |-> report.summary,
     apps             |-> [i \in DOMAIN report.apps |-> asdict(report.apps[i])]]

\* generate_json: the content written to the file
generate_json(report) == json_dump(report_dict(report))

\* ------------------------------------------------------------------------
\* scanner.py: the device identity
\* ------------------------------------------------------------------------
\* the keys get_device_info asks the device for
PropKeys ==
    {"model", "manufacturer", "android_version", "sdk_version", "security_patch",
     "device", "build_id"}

\* get_device_info() when the getprop calls of the keys in answered return
\* code 0 and the others fail, props[key] being the stripped output
get_device_info(props, answered) ==
    [key \in PropKeys \cap answered |-> props[key]]

\* ------------------------------------------------------------------------
\* scanner.py: ADBInterface
\* ------------------------------------------------------------------------
\* str.split(sep) for a separator of one character
RECURSIVE SplitLoop(_, _, _, _)
SplitLoop(s, sep, word, i) ==
    IF i > Len(s) THEN <<word>>
    ELSE IF SubSeq(s, i, i) = sep
         THEN <<word>> \o SplitLoop(s, sep, "", i + 1)
         ELSE SplitLoop(s, sep, word \o SubSeq(s, i, i), i + 1)

Split(s, sep) == SplitLoop(s, sep, "", 1)

\* str.replace(old, new) for strings of one character
RECURSIVE ReplaceChar(_, _, _)
ReplaceChar(s, old, new) ==
    IF Len(s) = 0 THEN ""
    ELSE (IF SubSeq(s, 1, 1) = old THEN new ELSE SubSeq(s, 1, 1))
         \o ReplaceChar(SubSeq(s, 2, Len(s)), old, new)

\* str.upper() and str.lower() on ASCII letters
LowerLetters == "abcdefghijklmnopqrstuvwxyz"

UpperLetters == "ABCDEFGHIJKLMNOPQRSTUVWXYZ"

MapChar(c, from, to) ==
    IF \E i \in 1..26 : SubSeq(from, i, i) = c
    THEN LET i == CHOOSE i \in 1..26 : SubSeq(from, i, i) = c IN SubSeq(to, i, i)
    ELSE c

RECURSIVE Upper(_)
Upper(s) ==
    IF Len(s) = 0 THEN ""
    ELSE MapChar(SubSeq(s, 1, 1), LowerLetters, UpperLetters) \o Upper(SubSeq(s, 2, Len(s)))

RECURSIVE Lower(_)
Lower(s) ==
    IF Len(s) = 0 THEN ""
    ELSE MapChar(SubSeq(s, 1, 1), UpperLetters, LowerLetters) \o Lower(SubSeq(s, 2, Len(s)))

\* str.capitalize(); also str.title() of a word of letters only
Capitalize(word) ==
    IF Len(word) = 0 THEN ""
    ELSE Upper(SubSeq(word, 1, 1)) \o Lower(SubSeq(word, 2, Len(word)))

\* the words of str.split() for a string whose only whitespace is the space
IsWord(word) == Len(word) > 0

Words(s) == SelectSeq(Split(s, " "), IsWord)

\* " ".join(words)
RECURSIVE JoinWords(_)
JoinWords(words) ==
    IF words = <<>> THEN ""
    ELSE IF Len(words) = 1 THEN words[1]
    ELSE words[1] \o " " \o JoinWords(Tail(words))

\* get_app_label: quick_labels
quick_labels ==
    ("com.discord" :> "Discord")
    @@ ("org.telegram.messenger" :> "Telegram")
    @@ ("com.whatsapp" :> "WhatsApp")
    @@ ("com.facebook.katana" :> "Facebook")
    @@ ("com.twitter.android" :> "Twitter/X")
    @@ ("com.google.android.apps.messaging" :> "Messages")
    @@ ("com.google.android.apps.maps" :> "Google Maps")
    @@ ("com.spotify.music" :> "Spotify")
    @@ ("com.netflix.mediaclient" :> "Netflix")
    @@ ("com.instagram.android" :> "Instagram")
    @@ ("com.google.android.youtube" :> "YouTube")
    @@ ("com.google.android.apps.youtube.music" :> "YouTube Music")
    @@ ("com.google.android.gms" :> "Google Play Services")
    @@ ("com.android.systemui" :> "System UI")
    @@ ("com.android.settings" :> "Settings")
    @@ ("com.android.contacts" :> "Contacts")
    @@ ("com.android.dialer" :> "Phone")
    @@ ("com.android.calendar" :> "Calendar")
    @@ ("com.android.launcher" :> "Launcher")
    @@ ("android" :> "Android System")

\* get_app_label: the part of the package name the label is made of
LabelPart(parts) ==
    LET last == parts[Len(parts)]
    IN  IF parts[1] = "com" /\ Len(parts) > 1
        THEN IF parts[2] = "google"
             THEN IF Len(parts) > 2
                  THEN IF \E i \in DOMAIN parts : parts[i] = "apps"
                       THEN LET apps_idx == CHOOSE i \in DOMAIN parts :
                                    /\ parts[i] = "apps"
                                    /\ \A j \in 1..(i - 1) : parts[j] # "apps"
                            IN  IF apps_idx < Len(parts) THEN parts[apps_idx + 1] ELSE ""
                       ELSE last
                  ELSE last
             ELSE IF parts[2] \in {"samsung", "shazam", "example"}
                  THEN Capitalize(parts[2])
                  ELSE IF Len(parts) >= 3
                       THEN IF parts[Len(parts) - 1] \notin {"mobile", "android", "app"}
                            THEN parts[Len(parts) - 1] ELSE last
                       ELSE last
        ELSE IF parts[1] = "org"
             THEN IF Len(parts) > 1 THEN Capitalize(parts[2]) ELSE ""
             ELSE last

\* get_app_label: one word of the label
FormatWord(word) ==
    IF Len(word) > 1
    THEN Upper(SubSeq(word, 1, 1)) \o Lower(SubSeq(word, 2, Len(word)))
    ELSE Upper(word)

\* ADBInterface.get_app_label(package)
get_app_label(package) ==
    IF package \in DOMAIN quick_labels THEN quick_labels[package]
    ELSE LET app_name == ReplaceChar(ReplaceChar(LabelPart(Split(package, ".")), "_", " "),
                                     "-", " ")
             words    == Words(app_name)
             result   == JoinWords([i \in DOMAIN words |-> FormatWord(words[i])])
             label    == IF Len(result) <= 2 THEN package ELSE result
         IN  SubSeq(label, 1, IF Len(label) < 40 THEN Len(label) ELSE 40)

\* ADBInterface.list_packages(): the names on the "package:" lines of the
\* pm output, or [] when the command fails
list_packages(code, listed) == IF code # 0 THEN <<>> ELSE listed

\* ADBInterface.get_package_info(package): the defaults when dumpsys fails
\* (dump is None), else the defaults overwritten by the fields the patterns
\* matched in the dump and by the permission lines found
get_package_info(package, dump) ==
    LET parts == Split(package, ".")
        info  == [package_name |-> package,
                  app_name     |-> Capitalize(parts[Len(parts)]),
                  version_name |-> "Unknown",
                  version_code |-> 0,
                  target_sdk   |-> 0,
                  min_sdk      |-> 0,
                  permissions  |-> <<>>,
                  install_time |-> "",
                  update_time  |-> "",
                  apk_path     |-> ""]
    IN  IF dump = None THEN info
        ELSE [key \in DOMAIN info |->
                 IF key \in DOMAIN dump.some THEN dump.some[key] ELSE info[key]]

\* s.startswith(prefix) and sub in s
StartsWith(s, prefix) ==
    /\ Len(s) >= Len(prefix)
    /\ SubSeq(s, 1, Len(prefix)) = prefix

Contains(s, sub) ==
    \E i \in 1..(Len(s) - Len(sub) + 1) : SubSeq(s, i, i + Len(sub) - 1) = sub

\* search_apk_for_urls: the test a URL passes to be kept
IsInsecureUrl(url) ==
    /\ StartsWith(url, "http://")
    /\ ~ \E safe \in {"localhost", "127.0.0.1", "10.", "192.168."} : Contains(url, safe)

\* list(set(items)): the distinct elements in an order Python is free to
\* choose; order picks one enumeration or its reverse
RECURSIVE Enumerate(_)
Enumerate(elements) ==
    IF elements = {} THEN <<>>
    ELSE LET first == CHOOSE e \in elements : TRUE
         IN  <<first>> \o Enumerate(elements \ {first})

ListOfSet(items, order) ==
    LET listed == Enumerate({items[i] : i \in DOMAIN items})
    IN  IF order = "forward" THEN listed
        ELSE [i \in DOMAIN listed |-> listed[Len(listed) + 1 - i]]

\* the URLs kept in the order found, duplicates included
search_apk_for_urls_found(code, urls, order) ==
    IF code = 0 /\ urls # <<>>
    THEN SelectSeq(urls, IsInsecureUrl)
    ELSE <<>>

\* ADBInterface.search_apk_for_urls(package): code is the exit code of the
\* last strings command run and urls what re.findall matched in its output
search_apk_for_urls(code, urls, order) ==
    IF code = 0 /\ urls # <<>>
    THEN Take(ListOfSet(SelectSeq(urls, IsInsecureUrl), order), 20)
    ELSE <<>>

\* ------------------------------------------------------------------------
\* scanner.py: VulnerabilityScanner
\* ------------------------------------------------------------------------
\* scan_app without the test that skips a package without permissions
scan_app_unfiltered(package, deep, env, now) ==
    IF env.raises THEN None
    ELSE LET pkg_info == get_package_info(package, env.dump)
         IN  Some(create_app_report(
                      package, get_app_label(package),
                      pkg_info.version_name, pkg_info.version_code,
                      pkg_info.target_sdk, pkg_info.min_sdk, pkg_info.permissions,
                      analyze_permissions(pkg_info.permissions),
                      get_sdk_risk(pkg_info.target_sdk, pkg_info.min_sdk),
                      Some(IF deep
                           THEN search_apk_for_urls(env.url_code, env.urls, env.order)
                           ELSE <<>>),
                      now))

\* VulnerabilityScanner.scan_app(package, deep_scan) at the instant now: the
\* report, or None when the package has no permissions or when any call
\* inside the try raises (env.raises)
scan_app(package, deep, env, now) ==
    IF env.raises THEN None
    ELSE LET pkg_info == get_package_info(package, env.dump)
         IN  IF pkg_info.permissions = <<>> THEN None
             ELSE Some(create_app_report(
                      package, get_app_label(package),
                      pkg_info.version_name, pkg_info.version_code,
                      pkg_info.target_sdk, pkg_info.min_sdk, pkg_info.permissions,
                      analyze_permissions(pkg_info.permissions),
                      get_sdk_risk(pkg_info.target_sdk, pkg_info.min_sdk),
                      Some(IF deep
                           THEN search_apk_for_urls(env.url_code, env.urls, env.order)
                           ELSE <<>>),
                      now))

\* ------------------------------------------------------------------------
\* scanner.py and main.py: the console table of high-risk apps
\* ------------------------------------------------------------------------
\* text[:n]
Truncate(text, n) == SubSeq(text, 1, IF Len(text) < n THEN Len(text) ELSE n)

\* ", ".join(items)
RECURSIVE JoinComma(_)
JoinComma(items) ==
    IF items = <<>> THEN ""
    ELSE IF Len(items) = 1 THEN items[1]
    ELSE items[1] \o ", " \o JoinComma(Tail(items))

\* the "Issues" cell of the CLI table
Issues(app) ==
    LET issues ==
          (IF app.dangerous_permissions # <<>>
           THEN <<ToString(Len(app.dangerous_permissions)) \o " dangerous perms">> ELSE <<>>)
          \o (IF app.sdk_issues # <<>>
              THEN <<ToString(Len(app.sdk_issues)) \o " SDK issues">> ELSE <<>>)
          \o (IF app.insecure_urls # <<>>
              THEN <<ToString(Len(app.insecure_urls)) \o " insecure URLs">> ELSE <<>>)
    IN  IF JoinComma(issues) = "" THEN "Review recommended" ELSE JoinComma(issues)

\* what was printed: the message when there is no table, else the count of
\* the heading, the rows of the table and the number of apps left out
Printed(message, heading, rows, more) ==
    [message |-> message, heading |-> heading, rows |-> rows, more |-> more]

\* scanner.py _display_high_risk_apps(report), used by the scan and demo
\* commands
scanner_display_high_risk_apps(report) ==
    LET high_risk == SelectSeq(report.apps,
                               LAMBDA app : app.risk_level \in {"CRITICAL", "HIGH"})
        shown_apps == Take(high_risk, 15)
    IN  IF high_risk = <<>>
        THEN Printed("No high-risk apps found!", 0, <<>>, 0)
        ELSE Printed("", Len(high_risk),
                     [i \in DOMAIN shown_apps |->
                         <<Truncate(shown_apps[i].app_name, 25),
                           Truncate(shown_apps[i].package_name, 35),
                           shown_apps[i].risk_level,
                           ToString(shown_apps[i].risk_score),
                           Issues(shown_apps[i])>>],
                     IF Len(high_risk) > 15 THEN Len(high_risk) - 15 ELSE 0)

\* main.py _display_high_risk_apps(full_report), used by the interactive menu
main_display_high_risk_apps(full_report) ==
    LET high_risk == SelectSeq(full_report.apps, LAMBDA a : a.risk_level = "HIGH")
        shown_apps == Take(high_risk, 10)
    IN  IF high_risk # <<>>
        THEN Printed("", Len(high_risk),
                     [i \in DOMAIN shown_apps |->
                         <<shown_apps[i].app_name, shown_apps[i].package_name,
                           ToString(shown_apps[i].risk_score)>>],
                     0)
        ELSE Printed("No high-risk apps detected", 0, <<>>, 0)

\* ------------------------------------------------------------------------
\* Inputs
\* ------------------------------------------------------------------------
\* permission identifiers a device reports: one catalog key of each severity
\* the catalog has, and three identifiers that are not catalog keys (the
\* second is the display name of a catalog entry, the third a catalog key
\* in another letter case)
KnownPerms == {"android.permission.READ_SMS", "android.permission.CAMERA",
               "android.permission.ACCESS_COARSE_LOCATION",
               "android.permission.ACCESS_WIFI_STATE"}

UnknownPerms == {"com.unknown.NOT_A_REAL_PERMISSION", "READ_SMS",
                 "android.permission.read_sms"}

PermPool == KnownPerms \cup UnknownPerms

\* API levels: the failure default 0, every table row, rows next to the
\* table, a negative level and a level far above the table
SdkLevels == (0..MaxSdkLevel) \cup {-1, 999}

\* scanner.py demo(): sample_apps, with the version and URL arguments the
\* demo passes for each
SampleApps ==
    << [package_name |-> "com.social.app", app_name |-> "Social Media App",
        permissions |-> <<"android.permission.CAMERA", "android.permission.RECORD_AUDIO",
                          "android.permission.ACCESS_FINE_LOCATION",
                          "android.permission.READ_CONTACTS",
                          "android.permission.READ_SMS", "android.permission.INTERNET">>,
        target_sdk |-> 31, min_sdk |-> 21,
        version_name |-> "1.0.0", version_code |-> 1, insecure_urls |-> Some(<<>>)],
       [package_name |-> "com.banking.app", app_name |-> "Banking App",
        permissions |-> <<"android.permission.INTERNET",
                          "android.permission.ACCESS_FINE_LOCATION",
                          "android.permission.CAMERA",
                          "android.permission.SYSTEM_ALERT_WINDOW">>,
        target_sdk |-> 33, min_sdk |-> 26,
        version_name |-> "1.0.0", version_code |-> 1, insecure_urls |-> Some(<<>>)],
       [package_name |-> "com.game.casual", app_name |-> "Casual Game",
        permissions |-> <<"android.permission.INTERNET",
                          "android.permission.ACCESS_WIFI_STATE">>,
        target_sdk |-> 33, min_sdk |-> 24,
        version_name |-> "1.0.0", version_code |-> 1, insecure_urls |-> Some(<<>>)],
       [package_name |-> "com.flashlight.free", app_name |-> "Free Flashlight",
        permissions |-> <<"android.permission.CAMERA",
                          "android.permission.ACCESS_FINE_LOCATION",
                          "android.permission.READ_CONTACTS",
                          "android.permission.READ_CALL_LOG",
                          "android.permission.SEND_SMS",
                          "android.permission.RECORD_AUDIO",
                          "android.permission.INTERNET">>,
        target_sdk |-> 28, min_sdk |-> 19,
        version_name |-> "1.0.0", version_code |-> 1,
        insecure_urls |-> Some(<<"http://api.example.com/data">>)] >>

\* further apps a caller may report: no permission at all, one HIGH
\* permission, two CRITICAL ones, and a CRITICAL with a HIGH one
OtherApps ==
    << [package_name |-> "com.example.app1", app_name |-> "App1",
        permissions |-> <<>>,
        target_sdk |-> 34, min_sdk |-> 28,
        version_name |-> "Unknown", version_code |-> 0, insecure_urls |-> None],
       [package_name |-> "com.example.app2", app_name |-> "App2",
        permissions |-> <<"android.permission.CAMERA">>,
        target_sdk |-> 0, min_sdk |-> 0,
        version_name |-> "2.1", version_code |-> 21, insecure_urls |-> None],
       [package_name |-> "com.example.app3", app_name |-> "App3",
        permissions |-> <<"android.permission.SYSTEM_ALERT_WINDOW",
                          "android.permission.BIND_ACCESSIBILITY_SERVICE">>,
        target_sdk |-> 999, min_sdk |-> 999,
        version_name |-> "3.0", version_code |-> 30, insecure_urls |-> Some(<<>>)],
       [package_name |-> "com.example.app4", app_name |-> "App4",
        permissions |-> <<"android.permission.READ_SMS", "com.example.app4.PRIVATE",
                          "android.permission.CAMERA">>,
        target_sdk |-> 27, min_sdk |-> 23,
        version_name |-> "4.0", version_code |-> 40, insecure_urls |-> Some(<<>>)] >>

AppPool == SampleApps \o OtherApps

\* the apps of the short pool: one HIGH by 58, one LOW, one HIGH by 50 and
\* one MEDIUM
FleetApps == {2, 6, 7, 8}

\* an app whose only permission is not in the catalog
PlainApp ==
    [package_name |-> "com.example.plain", app_name |-> "Plain",
     permissions |-> <<"com.example.plain.PRIVATE">>,
     target_sdk |-> 27, min_sdk |-> 23,
     version_name |-> "0.9", version_code |-> 9, insecure_urls |-> Some(<<>>)]

\* the apps rendered: scores 6, 100, 0, 50 and 0; the second has elements in
\* all four lists of its report, the third in none, the last SDK issues only
RenderApps == <<AppPool[3], AppPool[4], AppPool[5], AppPool[7], PlainApp>>

\* the property values of the connected device
DeviceProps ==
    [model |-> "Pixel 7", manufacturer |-> "Google", android_version |-> "14",
     sdk_version |-> "34", security_patch |-> "2024-01-05", device |-> "panther",
     build_id |-> "UQ1A.240105.004"]

\* a URL the strings of an APK hold
DeviceUrl(i) == "http://cdn" \o ToString(i) \o ".example.com/lib.js"

\* the apps of a scan whose HTML report is opened: one of level CRITICAL,
\* one HIGH, one MEDIUM and one LOW (indices in AppPool)
ExpandApps == {1, 2, 8, 6}

\* the packages of the connected device: for each, the fields dumpsys shows
\* and the URLs found in its APK. The first holds 24 plain-http hosts, two
\* of them twice, and three URLs the filter drops; the second shows nothing
\* but an uncatalogued permission; the third requests no permission.
Device ==
    << [package |-> "com.flashlight.free",
        dump |-> [version_name |-> "1.0.0", version_code |-> 1, target_sdk |-> 28,
                  min_sdk |-> 19, apk_path |-> "/data/app/com.flashlight.free-1",
                  permissions |-> AppPool[4].permissions],
        urls |-> [i \in 1..24 |-> DeviceUrl(i)]
                 \o <<DeviceUrl(1), DeviceUrl(24), "https://secure.example.com/api",
                      "http://localhost:8080/debug", "http://192.168.1.1/admin">>],
       [package |-> "com.example.plain",
        dump |-> [permissions |-> <<"com.example.plain.PRIVATE">>],
        urls |-> <<>>],
       [package |-> "com.whatsapp",
        dump |-> [version_name |-> "2.24.1", version_code |-> 224, target_sdk |-> 34,
                  min_sdk |-> 26, permissions |-> <<>>],
        urls |-> <<"http://static.example.net/a.png">>] >>

\* the entry of a package of the device
DeviceEntry(package) ==
    Device[CHOOSE k \in DOMAIN Device : Device[k].package = package]

\* what the device answers while one package is scanned: a call raises; or
\* dumpsys fails; or both succeed and the strings search fails, or succeeds
\* with set() enumerating its elements in one order or the other
DeviceAnswers ==
    { [raises |-> TRUE,  dump_ok |-> TRUE,  url_code |-> 0, order |-> "forward"],
      [raises |-> FALSE, dump_ok |-> FALSE, url_code |-> 0, order |-> "forward"],
      [raises |-> FALSE, dump_ok |-> TRUE,  url_code |-> 1, order |-> "forward"],
      [raises |-> FALSE, dump_ok |-> TRUE,  url_code |-> 0, order |-> "forward"],
      [raises |-> FALSE, dump_ok |-> TRUE,  url_code |-> 0, order |-> "backward"] }

\* the package lists pm may print: up to MaxPackages names, none twice
PackageLists ==
    LET choices == UNION {[1..n -> DOMAIN Device] : n \in 0..MaxPackages}
    IN  {[i \in DOMAIN c |-> Device[c[i]].package] :
            c \in {c \in choices : \A i, j \in DOMAIN c : c[i] = c[j] => i = j}}

\* scanner.py demo(): device_info
DemoDeviceInfo ==
    [model |-> "Demo Device", manufacturer |-> "Sample", android_version |-> "13",
     sdk_version |-> "33", security_patch |-> "2024-01-01"]

\* ------------------------------------------------------------------------
\* State
\* ------------------------------------------------------------------------
VARIABLES
    permissions,    \* the list last handed to analyze_permissions
    analysis,       \* what analyze_permissions returned for it
    prev_analysis,  \* what it returned for the list before the last change
    last_call,      \* the last change: the identifier added and where
    target_sdk,     \* the arguments last handed to get_sdk_risk
    min_sdk,
    sdk_analysis,   \* what get_sdk_risk returned for them
    reports,        \* the caller's list of AppSecurityReport
    full_report,    \* the FullScanReport built from reports, or None
    clock,          \* the instant datetime.now() returns next
    pc,             \* where the caller building a full report stands
    reordered,      \* the reports in another order
    reordered_report,   \* the FullScanReport built from reordered, or None
    html_file,      \* what generate_html wrote, or None
    json_file,      \* what generate_json wrote, or None
    text_file,      \* what generate_text wrote, or None
    scan_pc,        \* where scan_all_apps stands: "idle" or in its "loop"
    scans,          \* the scan_all_apps calls started on the scanner
    deep_scan,      \* the deep_scan argument of the running call
    packages,       \* what list_packages returned to the running call
    cursor,         \* the position of the loop in packages
    visited,        \* the packages the running call handed to scan_app, with the outcome
    call_start,     \* len(scan_results) when the running call started
    expanded,       \* the details the page script expanded when the HTML report was opened, or None
    shown           \* what _display_high_risk_apps printed, or None

vars == <<permissions, analysis, prev_analysis, last_call, target_sdk, min_sdk,
          sdk_analysis, reports, full_report, clock, pc, reordered,
          reordered_report, html_file, json_file, text_file, scan_pc, scans,
          deep_scan, packages, cursor, visited, call_start, expanded, shown>>

scanVars == <<scan_pc, scans, deep_scan, packages, cursor, visited, call_start>>

viewVars == <<expanded, shown>>

reorderVars == <<reordered, reordered_report>>

fileVars == <<html_file, json_file, text_file>>

permVars == <<permissions, analysis, prev_analysis, last_call>>

sdkVars == <<target_sdk, min_sdk, sdk_analysis>>

reportVars == <<reports, full_report, clock, pc, reorderVars, fileVars, scanVars, viewVars>>

Init ==
    /\ permissions = <<>>
    /\ analysis = None
    /\ prev_analysis = None
    /\ last_call = None
    /\ target_sdk = 0
    /\ min_sdk = 0
    /\ sdk_analysis = None
    /\ reports = <<>>
    /\ full_report = None
    /\ clock = 0
    /\ pc = "collect"
    /\ reordered = <<>>
    /\ reordered_report = None
    /\ html_file = None
    /\ json_file = None
    /\ text_file = None
    /\ scan_pc = "idle"
    /\ scans = 0
    /\ deep_scan = FALSE
    /\ packages = <<>>
    /\ cursor = 1
    /\ visited = <<>>
    /\ call_start = 0
    /\ expanded = None
    /\ shown = None

\* ------------------------------------------------------------------------
\* Scoring a permission list before and after one identifier is added
\* ------------------------------------------------------------------------
\* seq with perm put at position pos
InsertAt(seq, pos, perm) ==
    SubSeq(seq, 1, pos - 1) \o <<perm>> \o SubSeq(seq, pos, Len(seq))

\* analyze_permissions(L) and then analyze_permissions(L + [perm])
AnalyzeAppended(perm) ==
    /\ Len(permissions) < MaxPerms
    /\ permissions' = Append(permissions, perm)
    /\ prev_analysis' = analyze_permissions(permissions)
    /\ analysis' = analyze_permissions(permissions')
    /\ last_call' = [op |-> "append", perm |-> perm, pos |-> Len(permissions) + 1]
    /\ UNCHANGED <<sdkVars, reportVars>>

\* analyze_permissions(L) and then analyze_permissions of L with perm put
\* before its element at pos
AnalyzeInserted(perm, pos) ==
    /\ Len(permissions) < MaxPerms
    /\ pos \in 1..Len(permissions)
    /\ permissions' = InsertAt(permissions, pos, perm)
    /\ prev_analysis' = analyze_permissions(permissions)
    /\ analysis' = analyze_permissions(permissions')
    /\ last_call' = [op |-> "insert", perm |-> perm, pos |-> pos]
    /\ UNCHANGED <<sdkVars, reportVars>>

NextPerm ==
    \/ \E perm \in PermPool : AnalyzeAppended(perm)
    \/ \E perm \in UnknownPerms : \E pos \in 1..MaxPerms : AnalyzeInserted(perm, pos)

SpecPerm == Init /\ [][NextPerm]_vars

\* ------------------------------------------------------------------------
\* Analysing a pair of SDK levels
\* ------------------------------------------------------------------------
GetSdkRisk(target, min) ==
    /\ target_sdk' = target
    /\ min_sdk' = min
    /\ sdk_analysis' = get_sdk_risk(target, min)
    /\ UNCHANGED <<permVars, reportVars>>

NextSdk == \E target \in SdkLevels : \E min \in SdkLevels : GetSdkRisk(target, min)

SpecSdk == Init /\ [][NextSdk]_vars

\* ------------------------------------------------------------------------
\* Building app reports and aggregating them (scanner.py demo())
\* ------------------------------------------------------------------------
\* one round of "for app in sample_apps": score, build the report, append
AddAppReport(app) ==
    /\ pc = "collect"
    /\ Len(reports) < MaxApps
    /\ LET perm_analysis == analyze_permissions(app.permissions)
           sdk_analysis_ == get_sdk_risk(app.target_sdk, app.min_sdk)
           report == create_app_report(app.package_name, app.app_name,
                                       app.version_name, app.version_code,
                                       app.target_sdk, app.min_sdk, app.permissions,
                                       perm_analysis, sdk_analysis_,
                                       app.insecure_urls, clock)
       IN  reports' = Append(reports, report)
    /\ clock' = clock + 1
    /\ UNCHANGED <<full_report, pc, reorderVars, fileVars, permVars, sdkVars, scanVars, viewVars>>

\* create_full_report ordering the caller's list in place with list.sort
CreateFullReportInPlace ==
    /\ pc = "collect"
    /\ full_report' = create_full_report(DemoDeviceInfo, reports, clock)
    /\ reports' = SortedDesc(reports, [i \in DOMAIN reports |-> reports[i].risk_score])
    /\ clock' = clock + 1
    /\ pc' = "reported"
    /\ UNCHANGED <<reorderVars, fileVars, permVars, sdkVars, scanVars, viewVars>>

\* full_report = create_full_report(device_info, reports)
CreateFullReport ==
    /\ pc = "collect"
    /\ full_report' = create_full_report(DemoDeviceInfo, reports, clock)
    /\ clock' = clock + 1
    /\ pc' = "reported"
    /\ UNCHANGED <<reports, reorderVars, fileVars, permVars, sdkVars, scanVars, viewVars>>

\* the report the loop body builds for one app at the instant now
BuildReport(app, now) ==
    create_app_report(app.package_name, app.app_name, app.version_name,
                      app.version_code, app.target_sdk, app.min_sdk, app.permissions,
                      analyze_permissions(app.permissions),
                      get_sdk_risk(app.target_sdk, app.min_sdk),
                      app.insecure_urls, now)

\* the loop round of AddAppReport for a scan of up to MaxFleet apps
AddFleetReport(app) ==
    /\ pc = "collect"
    /\ Len(reports) < MaxFleet
    /\ reports' = Append(reports, BuildReport(app, clock))
    /\ clock' = clock + 1
    /\ UNCHANGED <<full_report, pc, reorderVars, fileVars, permVars, sdkVars, scanVars, viewVars>>

Next ==
    \/ \E k \in DOMAIN AppPool : AddAppReport(AppPool[k])
    \/ CreateFullReport

Spec == Init /\ [][Next]_vars

\* the loop round of AddAppReport for a scan of up to MaxReorder apps
AddReorderReport(app) ==
    /\ pc = "collect"
    /\ Len(reports) < MaxReorder
    /\ reports' = Append(reports, BuildReport(app, clock))
    /\ clock' = clock + 1
    /\ UNCHANGED <<full_report, pc, reorderVars, fileVars, permVars, sdkVars, scanVars, viewVars>>

\* the orderings of n elements
Orderings(n) == {f \in [1..n -> 1..n] : \A i, j \in 1..n : f[i] = f[j] => i = j}

\* seq in the order perm
Permuted(seq, perm) == [k \in DOMAIN seq |-> seq[perm[k]]]

\* create_full_report(device_info, the same reports in the order perm)
AggregateReordered(perm) ==
    /\ pc = "reported"
    /\ reordered' = Permuted(reports, perm)
    /\ reordered_report' = create_full_report(DemoDeviceInfo, reordered', clock)
    /\ clock' = clock + 1
    /\ pc' = "reordered"
    /\ UNCHANGED <<reports, full_report, fileVars, permVars, sdkVars, scanVars, viewVars>>

NextReorder ==
    \/ \E k \in DOMAIN AppPool : AddReorderReport(AppPool[k])
    \/ CreateFullReport
    \/ \E perm \in Orderings(Len(reports)) : AggregateReordered(perm)

SpecReorder == Init /\ [][NextReorder]_vars

\* the loop round of AddAppReport for a scan of up to MaxRender apps
AddRenderReport(app) ==
    /\ pc = "collect"
    /\ Len(reports) < MaxRender
    /\ reports' = Append(reports, BuildReport(app, clock))
    /\ clock' = clock + 1
    /\ UNCHANGED <<full_report, pc, reorderVars, fileVars, permVars, sdkVars, scanVars, viewVars>>

\* VulnerabilityScanner.get_full_report()
GetFullReport(answered) ==
    /\ pc = "collect"
    /\ scan_pc = "idle"
    /\ full_report' = create_full_report(get_device_info(DeviceProps, answered),
                                         reports, clock)
    /\ clock' = clock + 1
    /\ pc' = "reported"
    /\ UNCHANGED <<reports, reorderVars, fileVars, permVars, sdkVars, scanVars, viewVars>>

\* generator.generate_html(full_report), alone or as the first call of
\* generate_all
GenerateHtml ==
    /\ pc = "reported"
    /\ html_file' = Some(generate_html(full_report))
    /\ pc' = "html"
    /\ UNCHANGED <<json_file, text_file, reports, full_report, clock,
                   reorderVars, permVars, sdkVars, scanVars, viewVars>>

\* generator.generate_json(full_report), alone or as the second call of
\* generate_all
GenerateJson ==
    /\ pc \in {"reported", "html"}
    /\ json_file' = Some(generate_json(full_report))
    /\ pc' = IF pc = "html" THEN "json" ELSE "done"
    /\ UNCHANGED <<html_file, text_file, reports, full_report, clock,
                   reorderVars, permVars, sdkVars, scanVars, viewVars>>

\* generator.generate_text(full_report), alone or as the last call of
\* generate_all
GenerateText ==
    /\ pc \in {"reported", "json"}
    /\ text_file' = Some(generate_text(full_report))
    /\ pc' = "done"
    /\ UNCHANGED <<html_file, json_file, reports, full_report, clock,
                   reorderVars, permVars, sdkVars, scanVars, viewVars>>

\* a scan or the demo, then the formats the caller asks for
NextRender ==
    \/ \E k \in DOMAIN RenderApps : AddRenderReport(RenderApps[k])
    \/ \E answered \in SUBSET PropKeys : GetFullReport(answered)
    \/ CreateFullReport
    \/ GenerateHtml
    \/ GenerateJson
    \/ GenerateText

SpecRender == Init /\ [][NextRender]_vars

\* ------------------------------------------------------------------------
\* Scanning a device (VulnerabilityScanner)
\* ------------------------------------------------------------------------
\* scan_all_apps(deep_scan) up to the loop: packages = list_packages()
ScanAllApps(deep, code, listed) ==
    /\ pc = "collect"
    /\ scan_pc = "idle"
    /\ scans < MaxScans
    /\ scans' = scans + 1
    /\ deep_scan' = deep
    /\ packages' = list_packages(code, listed)
    /\ cursor' = 1
    /\ visited' = <<>>
    /\ call_start' = Len(reports)
    /\ scan_pc' = "loop"
    /\ UNCHANGED <<reports, full_report, clock, pc, reorderVars, fileVars, permVars,
                   sdkVars, viewVars>>

\* the loop with "break" in place of going on after a package without report
ScanAppStopping(answer) ==
    /\ scan_pc = "loop"
    /\ cursor <= Len(packages)
    /\ LET package == packages[cursor]
           entry   == DeviceEntry(package)
           env     == [raises   |-> answer.raises,
                       dump     |-> IF answer.dump_ok THEN Some(entry.dump) ELSE None,
                       url_code |-> answer.url_code,
                       urls     |-> entry.urls,
                       order    |-> answer.order]
       IN  \E report \in {scan_app(package, deep_scan, env, clock)} :
           /\ reports' = IF report # None THEN Append(reports, report.some) ELSE reports
           /\ clock' = IF report # None THEN clock + 1 ELSE clock
           /\ visited' = Append(visited, [package  |-> package,
                                          raised   |-> answer.raises,
                                          dump_ok  |-> answer.dump_ok,
                                          reported |-> report # None])
           /\ cursor' = IF report # None THEN cursor + 1 ELSE Len(packages) + 1
    /\ UNCHANGED <<scan_pc, scans, deep_scan, packages, call_start, full_report, pc,
                   reorderVars, fileVars, permVars, sdkVars, viewVars>>

\* one round of "for package in packages": report = scan_app(...), appended
\* when it is not None; the device answers as answer says
ScanApp(answer) ==
    /\ scan_pc = "loop"
    /\ cursor <= Len(packages)
    /\ LET package == packages[cursor]
           entry   == DeviceEntry(package)
           env     == [raises   |-> answer.raises,
                       dump     |-> IF answer.dump_ok THEN Some(entry.dump) ELSE None,
                       url_code |-> answer.url_code,
                       urls     |-> entry.urls,
                       order    |-> answer.order]
       IN  \E report \in {scan_app(package, deep_scan, env, clock)} :
           /\ reports' = IF report # None THEN Append(reports, report.some) ELSE reports
           /\ clock' = IF report # None THEN clock + 1 ELSE clock
           /\ visited' = Append(visited, [package  |-> package,
                                          raised   |-> answer.raises,
                                          dump_ok  |-> answer.dump_ok,
                                          reported |-> report # None])
    /\ cursor' = cursor + 1
    /\ UNCHANGED <<scan_pc, scans, deep_scan, packages, call_start, full_report, pc,
                   reorderVars, fileVars, permVars, sdkVars, viewVars>>

\* "return self.scan_results" once the loop is over: the parameters and
\* locals of the call end with it, self.scan_results stays
ReturnResults ==
    /\ scan_pc = "loop"
    /\ cursor > Len(packages)
    /\ scan_pc' = "idle"
    /\ deep_scan' = FALSE
    /\ packages' = <<>>
    /\ cursor' = 1
    /\ visited' = <<>>
    /\ call_start' = 0
    /\ UNCHANGED <<scans, reports, full_report, clock, pc, reorderVars, fileVars,
                   permVars, sdkVars, viewVars>>

\* scans of one scanner, then its full report
NextScan ==
    \/ \E deep \in BOOLEAN : \E code \in {0, 1} : \E listed \in PackageLists :
          ScanAllApps(deep, code, listed)
    \/ \E answer \in DeviceAnswers : ScanApp(answer)
    \/ ReturnResults
    \/ \E answered \in {PropKeys, {}} : GetFullReport(answered)

SpecScan == Init /\ [][NextScan]_vars

\* a browser opens the HTML report: the page script runs once
OpenHtml ==
    /\ html_file # None
    /\ expanded = None
    /\ expanded' = Some(ExpandHighRisk(html_file.some))
    /\ UNCHANGED <<shown, reports, full_report, clock, pc, reorderVars, fileVars,
                   permVars, sdkVars, scanVars>>

\* a scan of many apps of every level, its HTML report, opened in a browser
NextExpand ==
    \/ \E k \in ExpandApps : AddFleetReport(AppPool[k])
    \/ CreateFullReport
    \/ GenerateHtml
    \/ OpenHtml

SpecExpand == Init /\ [][NextExpand]_vars

\* the scan and demo commands print the table of high-risk apps
DisplayHighRiskApps ==
    /\ pc = "reported"
    /\ shown = None
    /\ shown' = Some([display |-> "scanner", cap |-> 15]
                      @@ scanner_display_high_risk_apps(full_report))
    /\ UNCHANGED <<expanded, reports, full_report, clock, pc, reorderVars, fileVars,
                   permVars, sdkVars, scanVars>>

\* the interactive menu prints its table of high-risk apps
MenuDisplayHighRiskApps ==
    /\ pc = "reported"
    /\ shown = None
    /\ shown' = Some([display |-> "main", cap |-> 10]
                      @@ main_display_high_risk_apps(full_report))
    /\ UNCHANGED <<expanded, reports, full_report, clock, pc, reorderVars, fileVars,
                   permVars, sdkVars, scanVars>>

\* a scan, its full report, and the table of one front end or the other
NextDisplay ==
    \/ \E k \in DOMAIN AppPool : AddAppReport(AppPool[k])
    \/ CreateFullReport
    \/ DisplayHighRiskApps
    \/ MenuDisplayHighRiskApps

SpecDisplay == Init /\ [][NextDisplay]_vars

\* many apps of few kinds
NextFleet ==
    \/ \E k \in FleetApps : AddFleetReport(AppPool[k])
    \/ CreateFullReport

SpecFleet == Init /\ [][NextFleet]_vars

\* ------------------------------------------------------------------------
\* Properties of analyze_permissions (checked under SpecPerm)
\* ------------------------------------------------------------------------
IsCatalogKey(perm) == perm \in DOMAIN DANGEROUS_PERMISSIONS

\* the weight table as the specification states it, by severity name
SpecWeight(severity) ==
    CASE severity = "CRITICAL" -> 25
      [] severity = "HIGH"     -> 15
      [] severity = "MEDIUM"   -> 8
      [] severity = "LOW"      -> 3
      [] severity = "INFO"     -> 1

KeyWeight(key) == SpecWeight(EnumValue(DANGEROUS_PERMISSIONS[key].risk_level))

Occurrences(seq, perm) == Cardinality({i \in DOMAIN seq : seq[i] = perm})

\* sum over the catalog keys of occurrences times weight
RECURSIVE WeightedSum(_, _)
WeightedSum(keys, seq) ==
    IF keys = {} THEN 0
    ELSE LET key == CHOOSE k \in keys : TRUE
         IN  Occurrences(seq, key) * KeyWeight(key) + WeightedSum(keys \ {key}, seq)

PreClampSum(seq) == WeightedSum(DOMAIN DANGEROUS_PERMISSIONS, seq)

Min(a, b) == IF a < b THEN a ELSE b

\* C1: for every permission list, unknown identifiers and duplicates
\* included, the risk_score analyze_permissions returns is an integer
\* between 0 and 100.
C1_ScoreClamp ==
    analysis # None =>
        /\ analysis.risk_score \in 0..100
        /\ prev_analysis.risk_score \in 0..100

\* five CRITICAL permissions, 125 before the cap, score 100
C1_Witness ==
    /\ analysis # None
    /\ permissions = [i \in 1..5 |-> "android.permission.READ_SMS"]
    /\ analysis.risk_score = 100

\* C2: the risk_score equals min(100, S), S being the sum over the entries
\* of the list that are catalog keys, each occurrence counted, of the weight
\* of the entry's severity (CRITICAL 25, HIGH 15, MEDIUM 8, LOW 3, INFO 1);
\* the cap applies to the total only.
C2_ScoreIsCappedWeightedSum ==
    analysis # None => analysis.risk_score = Min(100, PreClampSum(permissions))

\* four CRITICAL and one HIGH: S = 115, capped to 100
C2_Witness ==
    /\ analysis # None
    /\ Occurrences(permissions, "android.permission.READ_SMS") = 4
    /\ Occurrences(permissions, "android.permission.CAMERA") = 1
    /\ PreClampSum(permissions) = 115
    /\ analysis.risk_score = 100

\* C3: appending a catalog key to a list never lowers the risk_score.
C3_ScoreMonotonic ==
    (last_call # None /\ last_call.op = "append" /\ IsCatalogKey(last_call.perm)) =>
        analysis.risk_score >= prev_analysis.risk_score

\* a catalog key appended to a list that already scores 100
C3_Witness ==
    /\ last_call # None
    /\ last_call.op = "append"
    /\ IsCatalogKey(last_call.perm)
    /\ prev_analysis.risk_score = 100
    /\ PreClampSum(permissions) > 100
    /\ analysis.risk_score = 100

\* C4: the overall severity is decided by the risk_score alone: 70 and
\* above CRITICAL, 50..69 HIGH, 30..49 MEDIUM, 10..29 LOW, 0..9 INFO.
C4_SeverityThresholds ==
    analysis # None =>
        LET s == analysis.risk_score
            level == analysis.risk_level
        IN  /\ (s >= 70)      <=> (level = "RiskLevel.CRITICAL")
            /\ (s \in 50..69) <=> (level = "RiskLevel.HIGH")
            /\ (s \in 30..49) <=> (level = "RiskLevel.MEDIUM")
            /\ (s \in 10..29) <=> (level = "RiskLevel.LOW")
            /\ (s \in 0..9)   <=> (level = "RiskLevel.INFO")

\* a list that scores 69, one below the CRITICAL threshold, rated HIGH
C4_Witness ==
    /\ analysis # None
    /\ analysis.risk_score = 69
    /\ analysis.risk_level = "RiskLevel.HIGH"

\* C5: the list holding android.permission.READ_SMS alone scores 25 and is
\* rated LOW.
C5_ReadSmsAlone ==
    (analysis # None /\ permissions = <<"android.permission.READ_SMS">>) =>
        /\ analysis.risk_score = 25
        /\ analysis.risk_level = "RiskLevel.LOW"

C5_Witness ==
    /\ analysis # None
    /\ permissions = <<"android.permission.READ_SMS">>
    /\ analysis.dangerous_count = 1
    /\ analysis.dangerous_permissions[1].name = "READ_SMS"

\* C6: an identifier that is not a catalog key (exact, case-sensitive
\* match), put anywhere into a list, leaves risk_score, overall severity,
\* the matched permissions, dangerous_count and recommendations as they
\* were and adds one to total_permissions; alone it scores 0 with
\* dangerous_count 0.
C6_UnknownIsNoOp ==
    (last_call # None /\ ~IsCatalogKey(last_call.perm)) =>
        /\ permissions[last_call.pos] = last_call.perm
        /\ analysis.risk_score = prev_analysis.risk_score
        /\ analysis.risk_level = prev_analysis.risk_level
        /\ analysis.dangerous_permissions = prev_analysis.dangerous_permissions
        /\ analysis.dangerous_count = prev_analysis.dangerous_count
        /\ analysis.recommendations = prev_analysis.recommendations
        /\ analysis.total_permissions = prev_analysis.total_permissions + 1
        /\ Len(permissions) = 1 =>
              /\ analysis.risk_score = 0
              /\ analysis.dangerous_count = 0

\* the display name READ_SMS put between two matched permissions
C6_Witness ==
    /\ last_call # None
    /\ last_call.op = "insert"
    /\ last_call.perm = "READ_SMS"
    /\ last_call.pos = 2
    /\ permissions = <<"android.permission.READ_SMS", "READ_SMS",
                       "android.permission.CAMERA">>
    /\ analysis.risk_score = 40
    /\ analysis.dangerous_count = 2
    /\ analysis.total_permissions = 3

\* C7: no deduplication: the matched list holds one record per occurrence
\* of a catalog key, in input order, and appending a catalog key adds one
\* record and its weight to the sum before the cap, also when the key is
\* already in the list.
C7_NoDeduplication ==
    analysis # None =>
        LET matched == SelectSeq(permissions, IsCatalogKey)
        IN  /\ analysis.dangerous_permissions =
                   [i \in 1..Len(matched) |-> DANGEROUS_PERMISSIONS[matched[i]]]
            /\ analysis.dangerous_count = Len(matched)
            /\ (last_call.op = "append" /\ IsCatalogKey(last_call.perm)) =>
                  /\ analysis.dangerous_count = prev_analysis.dangerous_count + 1
                  /\ analysis.risk_score =
                         Min(100, prev_analysis.risk_score + KeyWeight(last_call.perm))

\* CAMERA listed twice: two records, twice the weight
C7_Witness ==
    /\ last_call # None
    /\ last_call.op = "append"
    /\ permissions = <<"android.permission.CAMERA", "android.permission.CAMERA">>
    /\ prev_analysis.risk_score = 15
    /\ analysis.risk_score = 30
    /\ analysis.dangerous_count = 2
    /\ analysis.dangerous_permissions[1] = analysis.dangerous_permissions[2]

\* ------------------------------------------------------------------------
\* Properties of get_sdk_risk (checked under SpecSdk)
\* ------------------------------------------------------------------------
\* C8: get_sdk_risk returns for a level outside the table a record named
\* "API <n>", of severity MEDIUM for the target level and, for the min
\* level, HIGH below 26 and MEDIUM otherwise; for a level of the table it
\* returns the table's record.
C8_SdkFallback ==
    sdk_analysis # None =>
        /\ DOMAIN sdk_analysis =
               {"target_sdk", "target_info", "min_sdk", "min_info", "recommendations"}
        /\ IF target_sdk \in 23..34
           THEN sdk_analysis.target_info = SDK_SECURITY_INFO.versions[target_sdk]
           ELSE /\ sdk_analysis.target_info.name = "API " \o ToString(target_sdk)
                /\ sdk_analysis.target_info.risk = "RiskLevel.MEDIUM"
        /\ IF min_sdk \in 23..34
           THEN sdk_analysis.min_info = SDK_SECURITY_INFO.versions[min_sdk]
           ELSE /\ sdk_analysis.min_info.name = "API " \o ToString(min_sdk)
                /\ sdk_analysis.min_info.risk =
                       IF min_sdk < 26 THEN "RiskLevel.HIGH" ELSE "RiskLevel.MEDIUM"

\* target 999 with the failure default 0 as min level
C8_Witness ==
    /\ sdk_analysis # None
    /\ target_sdk = 999
    /\ min_sdk = 0
    /\ sdk_analysis.target_info.name = "API 999"
    /\ sdk_analysis.target_info.risk = "RiskLevel.MEDIUM"
    /\ sdk_analysis.min_info.name = "API 0"
    /\ sdk_analysis.min_info.risk = "RiskLevel.HIGH"

\* the three findings with the condition of each, in the order a, b, c
SdkFindings(target, min) ==
    << [holds |-> target < 28, text |-> TargetBelowRecommended(target)],
       [holds |-> min < 26,    text |-> MinAllowsInsecure(min)],
       [holds |-> min < 23,    text |-> MinDeprecated(min)] >>

FindingHolds(finding) == finding.holds

\* C9: the findings of get_sdk_risk are exactly those of (a) target below
\* 28, (b) min below 26, (c) min below 23 whose condition holds, in the
\* order a, b, c, without duplicates.
C9_SdkFindings ==
    sdk_analysis # None =>
        LET expected == SelectSeq(SdkFindings(target_sdk, min_sdk), FindingHolds)
            findings == sdk_analysis.recommendations
        IN  /\ findings = [i \in 1..Len(expected) |-> expected[i].text]
            /\ Len(findings) \in 0..3
            /\ \A i, j \in DOMAIN findings : findings[i] = findings[j] => i = j

\* get_sdk_risk(20, 20): all three, in order
C9_Witness ==
    /\ sdk_analysis # None
    /\ target_sdk = 20
    /\ min_sdk = 20
    /\ sdk_analysis.recommendations =
           << "Target SDK 20 is below recommended minimum (28)",
              "Min SDK 20 allows installation on insecure Android versions",
              "Min SDK 20 is deprecated and has known vulnerabilities" >>

\* ------------------------------------------------------------------------
\* Properties of create_full_report (checked under Spec)
\* ------------------------------------------------------------------------
LevelCount(levels) == Cardinality({i \in DOMAIN reports : reports[i].risk_level \in levels})

\* C10: create_full_report counts in high_risk_apps the reports of level
\* CRITICAL or HIGH, in medium_risk_apps those of level MEDIUM, in
\* low_risk_apps those of level LOW or INFO; every report is in exactly one
\* bucket and the three counts add up to total_apps, the number of reports.
C10_BucketsPartition ==
    full_report # None =>
        /\ full_report.high_risk_apps = LevelCount({"CRITICAL", "HIGH"})
        /\ full_report.medium_risk_apps = LevelCount({"MEDIUM"})
        /\ full_report.low_risk_apps = LevelCount({"LOW", "INFO"})
        /\ \A i \in DOMAIN reports :
              reports[i].risk_level \in {"CRITICAL", "HIGH", "MEDIUM", "LOW", "INFO"}
        /\ full_report.total_apps = Len(reports)
        /\ full_report.high_risk_apps + full_report.medium_risk_apps
               + full_report.low_risk_apps = full_report.total_apps

\* four reports: one HIGH, one MEDIUM, one LOW and one INFO
C10_Witness ==
    /\ full_report # None
    /\ full_report.total_apps = 4
    /\ full_report.high_risk_apps = 1
    /\ full_report.medium_risk_apps = 1
    /\ full_report.low_risk_apps = 2
    /\ LevelCount({"HIGH"}) = 1
    /\ LevelCount({"LOW"}) = 1
    /\ LevelCount({"INFO"}) = 1

\* the place of an element in a sequence that holds it once
PositionIn(seq, element) == CHOOSE k \in DOMAIN seq : seq[k] = element

\* C11: FullScanReport.apps holds every input report once, unaltered, in
\* the order of risk_score from high to low, and reports with the same
\* risk_score keep the order they had in the input.
C11_AppsStablySorted ==
    full_report # None =>
        LET apps == full_report.apps
        IN  /\ Len(apps) = Len(reports)
            /\ \A i \in DOMAIN reports :
                  Occurrences(apps, reports[i]) = Occurrences(reports, reports[i])
            /\ \A k \in 1..(Len(apps) - 1) : apps[k].risk_score >= apps[k + 1].risk_score
            /\ \A i, j \in DOMAIN reports :
                  (i < j /\ reports[i].risk_score = reports[j].risk_score) =>
                      PositionIn(apps, reports[i]) < PositionIn(apps, reports[j])

\* two reports of one score, first and third in the input, with higher
\* scores second and fourth
C11_Witness ==
    /\ full_report # None
    /\ Len(reports) = 4
    /\ reports[1].risk_score = reports[3].risk_score
    /\ reports[1] # reports[3]
    /\ reports[2].risk_score > reports[1].risk_score
    /\ reports[4].risk_score > reports[2].risk_score
    /\ full_report.apps = <<reports[4], reports[2], reports[1], reports[3]>>

\* C13: aggregating an empty list is not an error: it gives total_apps 0,
\* the three risk counts 0, no apps, and a summary with no common
\* permission, no highest-risk app and both totals 0.
C13_EmptyScan ==
    (pc = "reported" /\ reports = <<>>) =>
        /\ full_report # None
        /\ full_report.total_apps = 0
        /\ full_report.high_risk_apps = 0
        /\ full_report.medium_risk_apps = 0
        /\ full_report.low_risk_apps = 0
        /\ full_report.apps = <<>>
        /\ full_report.summary.most_common_permissions = <<>>
        /\ full_report.summary.highest_risk_apps = <<>>
        /\ full_report.summary.total_dangerous_permissions = 0
        /\ full_report.summary.apps_with_insecure_urls = 0

\* create_full_report called before any report was collected
C13_Witness ==
    /\ pc = "reported"
    /\ reports = <<>>
    /\ full_report # None
    /\ full_report.device_info = DemoDeviceInfo

\* C14: the apps with permissions [], [CAMERA] and [SYSTEM_ALERT_WINDOW,
\* BIND_ACCESSIBILITY_SERVICE], scored, reported and aggregated in that
\* order, score 0, 15 (LOW) and 50 (HIGH); total_apps is 3, high_risk_apps
\* 1, medium_risk_apps 0, low_risk_apps 2 and apps is [app3, app2, app1].
C14_EndToEnd ==
    (/\ pc = "reported"
     /\ Len(reports) = 3
     /\ reports[1].permissions = <<>>
     /\ reports[2].permissions = <<"android.permission.CAMERA">>
     /\ reports[3].permissions = <<"android.permission.SYSTEM_ALERT_WINDOW",
                                   "android.permission.BIND_ACCESSIBILITY_SERVICE">>) =>
        /\ reports[1].risk_score = 0
        /\ reports[2].risk_score = 15
        /\ reports[2].risk_level = "LOW"
        /\ reports[3].risk_score = 50
        /\ reports[3].risk_level = "HIGH"
        /\ full_report.total_apps = 3
        /\ full_report.high_risk_apps = 1
        /\ full_report.medium_risk_apps = 0
        /\ full_report.low_risk_apps = 2
        /\ full_report.apps = <<reports[3], reports[2], reports[1]>>

C14_Witness ==
    /\ pc = "reported"
    /\ Len(reports) = 3
    /\ reports[1].package_name = "com.example.app1"
    /\ reports[1].permissions = <<>>
    /\ reports[2].package_name = "com.example.app2"
    /\ reports[3].package_name = "com.example.app3"
    /\ full_report.summary.highest_risk_apps =
           <<"com.example.app3", "com.example.app2", "com.example.app1">>

\* the names of the dangerous permissions of all reports, app after app
RECURSIVE DangerousNames(_)
DangerousNames(app_reports) ==
    IF app_reports = <<>> THEN <<>>
    ELSE LET found == Head(app_reports).dangerous_permissions
         IN  [i \in 1..Len(found) |-> found[i].name] \o DangerousNames(Tail(app_reports))

\* where a name is seen first
FirstSeen(names, name) ==
    CHOOSE k \in DOMAIN names : names[k] = name /\ \A j \in 1..(k - 1) : names[j] # name

\* C15: summary.most_common_permissions has at most 10 entries; the count
\* of an entry is the number of occurrences of its name in the
\* dangerous_permissions of all apps; the entries are in the order of count
\* from high to low, names of equal count in the order they were first
\* seen; no name left out has a larger count than a name listed.
C15_MostCommonPermissions ==
    full_report # None =>
        LET names    == DangerousNames(reports)
            distinct == {names[k] : k \in DOMAIN names}
            common   == full_report.summary.most_common_permissions
            listed   == {common[k].permission : k \in DOMAIN common}
        IN  /\ Len(common) <= 10
            /\ Len(common) = Min(10, Cardinality(distinct))
            /\ listed \subseteq distinct
            /\ Cardinality(listed) = Len(common)
            /\ \A k \in DOMAIN common :
                  /\ DOMAIN common[k] = {"permission", "count"}
                  /\ common[k].count = Occurrences(names, common[k].permission)
            /\ \A k \in 1..(Len(common) - 1) :
                  /\ common[k].count >= common[k + 1].count
                  /\ common[k].count = common[k + 1].count =>
                        FirstSeen(names, common[k].permission)
                            < FirstSeen(names, common[k + 1].permission)
            /\ \A name \in distinct \ listed : \A k \in DOMAIN common :
                  Occurrences(names, name) <= common[k].count

\* eleven names over four apps: one is left out, the first entry was seen
\* after the second, and the second and third tie
C15_Witness ==
    /\ full_report # None
    /\ LET names  == DangerousNames(reports)
           common == full_report.summary.most_common_permissions
       IN  /\ Cardinality({names[k] : k \in DOMAIN names}) = 11
           /\ Len(common) = 10
           /\ common[1].count = 3
           /\ common[2].count = 2
           /\ common[3].count = 2
           /\ FirstSeen(names, common[1].permission) > FirstSeen(names, common[2].permission)

\* ------------------------------------------------------------------------
\* Properties of create_full_report on longer lists (checked under SpecFleet)
\* ------------------------------------------------------------------------
\* C16: summary.highest_risk_apps is the package names of the first
\* min(5, total_apps) entries of apps, in that order; no app outside it has
\* a higher risk_score than an app inside it.
C16_HighestRiskApps ==
    full_report # None =>
        LET apps    == full_report.apps
            highest == full_report.summary.highest_risk_apps
        IN  /\ Len(highest) = Min(5, full_report.total_apps)
            /\ \A k \in DOMAIN highest : highest[k] = apps[k].package_name
            /\ \A outside \in (Len(highest) + 1)..Len(apps) : \A inside \in DOMAIN highest :
                  apps[outside].risk_score <= apps[inside].risk_score

\* six apps: five listed, the first one scanned left out with a lower score
C16_Witness ==
    /\ full_report # None
    /\ full_report.total_apps = 6
    /\ Len(full_report.summary.highest_risk_apps) = 5
    /\ full_report.apps[6] = reports[1]
    /\ full_report.apps[6].risk_score < full_report.apps[5].risk_score
    /\ \A k \in 1..5 : full_report.summary.highest_risk_apps[k] # reports[1].package_name

\* ------------------------------------------------------------------------
\* Properties of create_full_report on two orders (checked under SpecReorder)
\* ------------------------------------------------------------------------
\* C12: for two orderings of the same reports create_full_report gives the
\* same total_apps, high, medium and low counts and
\* summary.total_dangerous_permissions, and apps sequences with the same
\* risk_score at every position; reports of equal score follow the input
\* order of each ordering.
C12_OrderInvariance ==
    reordered_report # None =>
        LET first  == full_report
            second == reordered_report
        IN  /\ second.total_apps = first.total_apps
            /\ second.high_risk_apps = first.high_risk_apps
            /\ second.medium_risk_apps = first.medium_risk_apps
            /\ second.low_risk_apps = first.low_risk_apps
            /\ second.summary.total_dangerous_permissions
                   = first.summary.total_dangerous_permissions
            /\ Len(second.apps) = Len(first.apps)
            /\ \A k \in DOMAIN first.apps :
                  second.apps[k].risk_score = first.apps[k].risk_score
            /\ \A i \in DOMAIN reports :
                  Occurrences(second.apps, reports[i]) = Occurrences(first.apps, reports[i])
            /\ \A i, j \in DOMAIN reordered :
                  (i < j /\ reordered[i].risk_score = reordered[j].risk_score) =>
                      PositionIn(second.apps, reordered[i])
                          < PositionIn(second.apps, reordered[j])

\* two reports of one score swapped: the two apps sequences differ
C12_Witness ==
    /\ reordered_report # None
    /\ Len(reports) = 3
    /\ reports[1].risk_score = reports[2].risk_score
    /\ reports[3].risk_score > reports[1].risk_score
    /\ reordered = <<reports[2], reports[1], reports[3]>>
    /\ full_report.apps = <<reports[3], reports[1], reports[2]>>
    /\ reordered_report.apps = <<reports[3], reports[2], reports[1]>>

\* ------------------------------------------------------------------------
\* Properties of the serializers (checked under SpecRender)
\* ------------------------------------------------------------------------
\* int(c) of one character, -1 when c is not a decimal digit
DigitValue(c) ==
    CASE c = "0" -> 0 [] c = "1" -> 1 [] c = "2" -> 2 [] c = "3" -> 3
      [] c = "4" -> 4 [] c = "5" -> 5 [] c = "6" -> 6 [] c = "7" -> 7
      [] c = "8" -> 8 [] c = "9" -> 9 [] OTHER -> -1

\* int(s) of a string of decimal digits, -1 when s is not one
RECURSIVE ParseInt(_)
ParseInt(s) ==
    IF Len(s) = 0 THEN -1
    ELSE LET last == DigitValue(SubSeq(s, Len(s), Len(s)))
         IN  IF Len(s) = 1 THEN last
             ELSE LET rest == ParseInt(SubSeq(s, 1, Len(s) - 1))
                  IN  IF rest < 0 \/ last < 0 THEN -1 ELSE 10 * rest + last

\* the k-th smallest element of a set of integers
KthOf(indices, k) ==
    CHOOSE i \in indices : Cardinality({j \in indices : j < i}) = k - 1

\* the positions of the lines of doc equal to line
LinesEqual(doc, line) == {i \in DOMAIN doc : doc[i] = line}

\* the piece at position piece of the first line of doc that starts with
\* the literal text label
PieceAfter(doc, label, piece) ==
    LET found == {i \in DOMAIN doc : doc[i][1] = label}
    IN  IF found = {} \/ Len(doc[KthOf(found, 1)]) < piece THEN ""
        ELSE doc[KthOf(found, 1)][piece]

\* the app blocks of a text document: each runs from a top rule to the next
\* bottom rule
TextBlockCount(doc) == Cardinality(LinesEqual(doc, <<".----">>))

TextBlock(doc, k) ==
    LET start == KthOf(LinesEqual(doc, <<".----">>), k)
        stop  == KthOf({j \in LinesEqual(doc, <<"'----">>) : j > start}, 1)
    IN  SubSeq(doc, start, stop)

\* the app cards of an HTML document: each runs from its opening line to
\* the line before the next card or the footer
HtmlCardCount(doc) == Cardinality(LinesEqual(doc, <<"<div class=\"app-card\">">>))

HtmlCard(doc, k) ==
    LET opens == LinesEqual(doc, <<"<div class=\"app-card\">">>)
        start == KthOf(opens, k)
        later == {j \in opens : j > start}
        stop  == IF later = {} THEN Len(doc) - 1 ELSE KthOf(later, 1) - 1
    IN  SubSeq(doc, start, stop)

\* the number an HTML document shows in the stat card labelled label
HtmlStat(doc, label) ==
    LET found == LinesEqual(doc, <<"<div class=\"stat-label\">" \o label \o "</div>">>)
    IN  IF found = {} THEN -1 ELSE ParseInt(doc[KthOf(found, 1) - 1][2])

\* the integer a JSON document holds in value, -1 when it is not a number
JsonInt(value) ==
    IF DOMAIN value = {"number"} THEN ParseInt(value.number) ELSE -1

\* the numbers the three documents show for one count of the report
TextCountOf(doc, key) ==
    CASE key = "total_apps"       -> ParseInt(PieceAfter(doc, "Total Apps Scanned:     ", 2))
      [] key = "high_risk_apps"   -> ParseInt(PieceAfter(doc, "High Risk Apps:         ", 2))
      [] key = "medium_risk_apps" -> ParseInt(PieceAfter(doc, "Medium Risk Apps:       ", 2))
      [] key = "low_risk_apps"    -> ParseInt(PieceAfter(doc, "Low Risk Apps:          ", 2))

HtmlCountOf(doc, key) ==
    CASE key = "total_apps"       -> HtmlStat(doc, "Total Apps Scanned")
      [] key = "high_risk_apps"   -> HtmlStat(doc, "High Risk Apps")
      [] key = "medium_risk_apps" -> HtmlStat(doc, "Medium Risk Apps")
      [] key = "low_risk_apps"    -> HtmlStat(doc, "Low Risk Apps")

JsonCountOf(doc, key) ==
    IF key \in DOMAIN doc THEN JsonInt(doc[key]) ELSE -1

\* the risk score the three documents show for one app
TextScore(block) == ParseInt(PieceAfter(block, "| Risk Level: ", 4))

HtmlScore(card) ==
    ParseInt(PieceAfter(card, "<div style=\"font-size: 1.5em; font-weight: bold;\">", 2))

HtmlMeterWidth(card) ==
    ParseInt(PieceAfter(card, "<div class=\"risk-meter-fill\" style=\"width: ", 2))

JsonScore(app) ==
    IF "risk_score" \in DOMAIN app THEN JsonInt(app.risk_score) ELSE -1

CountKeys == {"total_apps", "high_risk_apps", "medium_risk_apps", "low_risk_apps"}

\* C17: the JSON, text and HTML renderings of one FullScanReport show the
\* same total_apps, high_risk_apps, medium_risk_apps and low_risk_apps, and
\* for the app at every position the same integer risk_score; the score
\* parsed back from the text equals the risk_score of the JSON document.
C17_CrossFormatConsistency ==
    (html_file # None /\ json_file # None /\ text_file # None) =>
        LET html == html_file.some
            json == json_file.some
            text == text_file.some
        IN  /\ \A key \in CountKeys :
                  /\ JsonCountOf(json, key) = full_report[key]
                  /\ TextCountOf(text, key) = JsonCountOf(json, key)
                  /\ HtmlCountOf(html, key) = JsonCountOf(json, key)
            /\ "apps" \in DOMAIN json
            /\ Len(json.apps) = Len(full_report.apps)
            /\ TextBlockCount(text) = Len(json.apps)
            /\ HtmlCardCount(html) = Len(json.apps)
            /\ \A k \in DOMAIN full_report.apps :
                  /\ JsonScore(json.apps[k]) = full_report.apps[k].risk_score
                  /\ TextScore(TextBlock(text, k)) = JsonScore(json.apps[k])
                  /\ HtmlScore(HtmlCard(html, k)) = JsonScore(json.apps[k])
                  /\ HtmlMeterWidth(HtmlCard(html, k)) = JsonScore(json.apps[k])

\* all three formats written for a scan of an app of score 100 and one of
\* score 6, one HIGH and one LOW in the counts
C17_Witness ==
    /\ html_file # None /\ json_file # None /\ text_file # None
    /\ Len(full_report.apps) = 2
    /\ TextScore(TextBlock(text_file.some, 1)) = 100
    /\ HtmlScore(HtmlCard(html_file.some, 2)) = 6
    /\ JsonScore(json_file.some.apps[1]) = 100
    /\ TextCountOf(text_file.some, "high_risk_apps") = 1
    /\ HtmlCountOf(html_file.some, "low_risk_apps") = 1

\* the fields of the two dataclasses
AppFields ==
    {"package_name", "app_name", "version_name", "version_code", "target_sdk",
     "min_sdk", "permissions", "dangerous_permissions", "risk_score", "risk_level",
     "sdk_issues", "insecure_urls", "recommendations", "scan_time"}

ReportFields ==
    {"device_info", "scan_time", "total_apps", "high_risk_apps", "medium_risk_apps",
     "low_risk_apps", "apps", "summary"}

\* json.load of a document: the inverse of each token
JsonText(value) ==
    IF DOMAIN value = {"string"} THEN value.string ELSE "<not a string>"

LoadStrings(items) == [i \in DOMAIN items |-> JsonText(items[i])]

LoadDict(members) ==
    [k \in DOMAIN members |->
        IF k = "count" THEN JsonInt(members[k]) ELSE JsonText(members[k])]

LoadDicts(items) == [i \in DOMAIN items |-> LoadDict(items[i])]

LoadSummaryMember(key, value) ==
    CASE key = "most_common_permissions" -> LoadDicts(value)
      [] key = "highest_risk_apps"       -> LoadStrings(value)
      [] OTHER                           -> JsonInt(value)

LoadAppMember(key, value) ==
    CASE key \in {"version_code", "target_sdk", "min_sdk", "risk_score"} -> JsonInt(value)
      [] key \in {"permissions", "sdk_issues", "insecure_urls", "recommendations"} -> LoadStrings(value)
      [] key = "dangerous_permissions" -> LoadDicts(value)
      [] OTHER -> JsonText(value)

LoadReportMember(key, value) ==
    CASE key = "device_info" -> LoadDict(value)
      [] key = "scan_time"   -> JsonText(value)
      [] key = "summary"     -> [k \in DOMAIN value |-> LoadSummaryMember(k, value[k])]
      [] key = "apps"        ->
            [i \in DOMAIN value |->
                [k \in DOMAIN value[i] |-> LoadAppMember(k, value[i][k])]]
      [] OTHER               -> JsonInt(value)

\* the FullScanReport rebuilt from a JSON document
LoadReport(doc) == [k \in DOMAIN doc |-> LoadReportMember(k, doc[k])]

\* C18: the JSON document holds device_info, scan_time, the four counts, the
\* summary and, for every app of report.apps in the same order, each of the
\* 14 AppSecurityReport fields with its in-memory value: the FullScanReport
\* rebuilt from the document is the one that was rendered.
C18_JsonLossless ==
    json_file # None =>
        LET doc == json_file.some
        IN  /\ DOMAIN doc = ReportFields
            /\ Len(doc.apps) = Len(full_report.apps)
            /\ \A k \in DOMAIN doc.apps :
                  /\ DOMAIN doc.apps[k] = AppFields
                  /\ \A field \in AppFields :
                        LoadAppMember(field, doc.apps[k][field]) = full_report.apps[k][field]
            /\ LoadReport(doc) = full_report

\* the JSON document of a scan of two apps, the first with dangerous
\* permissions, SDK issues, an insecure URL and recommendations, on a device
\* that answered for its model only
C18_Witness ==
    /\ json_file # None
    /\ DOMAIN full_report.device_info = {"model"}
    /\ Len(full_report.apps) = 2
    /\ full_report.apps[1].package_name = "com.flashlight.free"
    /\ Len(json_file.some.apps[1].dangerous_permissions) = 7
    /\ json_file.some.apps[1].insecure_urls = <<[string |-> "http://api.example.com/data"]>>
    /\ json_file.some.apps[1].risk_score = [number |-> "100"]
    /\ json_file.some.summary.total_dangerous_permissions = [number |-> "9"]

\* the number of lines of a block that start with the literal text label
LinesStarting(block, label) ==
    Cardinality({i \in DOMAIN block : block[i][1] = label})

\* a sub-section is omitted: neither its heading nor any of its bullets
SectionOmitted(block, heading, bullet) ==
    /\ LinesStarting(block, heading) = 0
    /\ LinesStarting(block, bullet) = 0

\* a sub-section is present: its heading once, followed by one bullet line
\* per element, in order, and no other bullet of its kind
SectionPresent(block, heading, bullet, items) ==
    /\ LinesStarting(block, heading) = 1
    /\ LinesStarting(block, bullet) = Len(items)
    /\ \E h \in DOMAIN block :
          /\ block[h] = <<heading>>
          /\ h + Len(items) <= Len(block)
          /\ \A i \in DOMAIN items : block[h + i] = <<bullet, items[i]>>

SectionOmittedOrPresent(block, heading, bullet, items) ==
    IF items = <<>>
    THEN SectionOmitted(block, heading, bullet)
    ELSE SectionPresent(block, heading, bullet, items)

\* the dangerous-permissions count line once, followed by one bullet per
\* permission (its name and severity, then its description)
PermissionsListed(block, perms) ==
    /\ LinesStarting(block, "| Dangerous Permissions: ") = 1
    /\ LinesStarting(block, "|   * ") = Len(perms)
    /\ \E h \in DOMAIN block :
          /\ block[h] = <<"| Dangerous Permissions: ", ToString(Len(perms))>>
          /\ h + 2 * Len(perms) <= Len(block)
          /\ \A i \in DOMAIN perms :
                /\ block[h + 2 * i - 1]
                       = <<"|   * ", perms[i].name, " [", perms[i].risk_level, "]">>
                /\ block[h + 2 * i] = <<"|     ", perms[i].description>>

\* the claim as stated: in the text rendering the dangerous-permissions,
\* SDK-findings, insecure-URLs and recommendations sub-sections of each app
\* block are each omitted entirely, heading and bullets, when their source
\* list is empty, and present with one bullet per element otherwise
C19_AllSectionsOmittedWhenEmpty ==
    text_file # None =>
        \A k \in DOMAIN full_report.apps :
            LET app   == full_report.apps[k]
                block == TextBlock(text_file.some, k)
            IN  /\ IF app.dangerous_permissions = <<>>
                   THEN SectionOmitted(block, "| Dangerous Permissions: ", "|   * ")
                   ELSE PermissionsListed(block, app.dangerous_permissions)
                /\ SectionOmittedOrPresent(block, "| SDK Issues:", "|   ! ", app.sdk_issues)
                /\ SectionOmittedOrPresent(block, "| Insecure URLs:", "|   x ", app.insecure_urls)
                /\ SectionOmittedOrPresent(block, "| Recommendations:", "|   > ",
                                           app.recommendations)

\* C19: in the text rendering the SDK-findings, insecure-URLs and
\* recommendations sub-sections of each app block are each omitted entirely,
\* heading and bullets, when their source list is empty, and present with
\* one bullet per element otherwise; the dangerous-permissions line with the
\* count is always present, with one bullet per element and none when the
\* list is empty.
C19_TextSections ==
    text_file # None =>
        /\ TextBlockCount(text_file.some) = Len(full_report.apps)
        /\ \A k \in DOMAIN full_report.apps :
              LET app   == full_report.apps[k]
                  block == TextBlock(text_file.some, k)
              IN  /\ PermissionsListed(block, app.dangerous_permissions)
                  /\ SectionOmittedOrPresent(block, "| SDK Issues:", "|   ! ", app.sdk_issues)
                  /\ SectionOmittedOrPresent(block, "| Insecure URLs:", "|   x ",
                                             app.insecure_urls)
                  /\ SectionOmittedOrPresent(block, "| Recommendations:", "|   > ",
                                             app.recommendations)

\* a text document with the block of an app that has elements in all four
\* lists and the block of an app that has SDK issues only
C19_Witness ==
    /\ text_file # None
    /\ Len(full_report.apps) = 2
    /\ full_report.apps[1].package_name = "com.flashlight.free"
    /\ full_report.apps[1].insecure_urls # <<>>
    /\ full_report.apps[2].package_name = "com.example.plain"
    /\ full_report.apps[2].dangerous_permissions = <<>>
    /\ full_report.apps[2].recommendations = <<>>
    /\ full_report.apps[2].sdk_issues # <<>>
    /\ LinesStarting(TextBlock(text_file.some, 1), "|   x ") = 1
    /\ LinesStarting(TextBlock(text_file.some, 2), "| Dangerous Permissions: ") = 1
    /\ LinesStarting(TextBlock(text_file.some, 2), "| Recommendations:") = 0

\* the keys of the device identity the two templates read
TemplateKeys == {"model", "android_version"}

\* what a document shows in the place of a key of the device identity
TextDevicePiece(doc, key) ==
    PieceAfter(doc, "Device: ", IF key = "model" THEN 2 ELSE 4)

HtmlDevicePiece(doc, key) ==
    PieceAfter(doc, "<p>Device: ", IF key = "model" THEN 2 ELSE 4)

\* C20: when the device-identity mapping lacks model or android_version,
\* also when it is empty, the serializers complete, and the text and HTML
\* renderings show a placeholder string, not nothing, in the place of the
\* missing value.
C20_PlaceholderForMissingKey ==
    \A key \in TemplateKeys :
        (full_report # None /\ key \notin DOMAIN full_report.device_info) =>
            /\ text_file # None =>
                  /\ LinesStarting(text_file.some, "Device: ") = 1
                  /\ TextDevicePiece(text_file.some, key) # ""
            /\ html_file # None =>
                  /\ LinesStarting(html_file.some, "<p>Device: ") = 1
                  /\ HtmlDevicePiece(html_file.some, key) # ""

\* ------------------------------------------------------------------------
\* More properties of analyze_permissions (checked under SpecPerm)
\* ------------------------------------------------------------------------
\* the recommendations the specification states for an input list: for each
\* identifier that is a catalog key, in input order, the first
\* min(2, number of mitigations) mitigations of its record, each prefixed
\* with the record's name in square brackets
RECURSIVE ExpectedRecommendations(_)
ExpectedRecommendations(perms) ==
    IF perms = <<>> THEN <<>>
    ELSE IF ~IsCatalogKey(Head(perms)) THEN ExpectedRecommendations(Tail(perms))
    ELSE LET record == DANGEROUS_PERMISSIONS[Head(perms)]
             count  == Min(2, Len(record.mitigations))
         IN  [i \in 1..count |-> "[" \o record.name \o "] " \o record.mitigations[i]]
             \o ExpectedRecommendations(Tail(perms))

\* C23: the recommendations of analyze_permissions are the concatenation,
\* over the matched records in input order, of each record's first
\* min(2, number of mitigations) mitigations in catalog order, each prefixed
\* with "[<permission name>] "; so there are at most 2 * dangerous_count of
\* them and none when no permission matched.
C23_Recommendations ==
    analysis # None =>
        /\ analysis.recommendations = ExpectedRecommendations(permissions)
        /\ Len(analysis.recommendations) <= 2 * analysis.dangerous_count
        /\ analysis.dangerous_count = 0 => analysis.recommendations = <<>>

\* a record of three mitigations, an identifier outside the catalog and a
\* record of one mitigation: three recommendations
C23_Witness ==
    /\ analysis # None
    /\ permissions = <<"android.permission.READ_SMS", "com.unknown.NOT_A_REAL_PERMISSION",
                       "android.permission.ACCESS_WIFI_STATE">>
    /\ Len(DANGEROUS_PERMISSIONS["android.permission.READ_SMS"].mitigations) = 3
    /\ Len(DANGEROUS_PERMISSIONS["android.permission.ACCESS_WIFI_STATE"].mitigations) = 1
    /\ analysis.dangerous_count = 2
    /\ analysis.recommendations =
          <<"[READ_SMS] Revoke if not essential for app function",
            "[READ_SMS] Use SMS Retriever API instead",
            "[ACCESS_WIFI_STATE] Standard permission, low risk">>

\* ------------------------------------------------------------------------
\* More properties of get_sdk_risk (checked under SpecSdk)
\* ------------------------------------------------------------------------
\* the string s ends with the string suffix
EndsWith(s, suffix) ==
    /\ Len(s) >= Len(suffix)
    /\ SubSeq(s, Len(s) - Len(suffix) + 1, Len(s)) = suffix

\* finding (b), whatever level it names
IsInsecureFinding(text) ==
    EndsWith(text, " allows installation on insecure Android versions")

\* finding (c), whatever level it names
IsDeprecatedFinding(text) ==
    EndsWith(text, " is deprecated and has known vulnerabilities")

\* C27: whenever the findings of get_sdk_risk hold the 'min SDK is
\* deprecated' finding (c) they hold the 'min SDK allows installation on
\* insecure Android versions' finding (b) immediately before it; (c) never
\* appears without (b), and (b) appears without (c) exactly when
\* 23 <= min_sdk < 26.
C27_DeprecatedImpliesInsecure ==
    sdk_analysis # None =>
        LET findings == sdk_analysis.recommendations
            has_b == \E i \in DOMAIN findings : IsInsecureFinding(findings[i])
            has_c == \E i \in DOMAIN findings : IsDeprecatedFinding(findings[i])
        IN  /\ \A i \in DOMAIN findings :
                  IsDeprecatedFinding(findings[i]) =>
                      /\ i > 1
                      /\ IsInsecureFinding(findings[i - 1])
            /\ has_c => has_b
            /\ (has_b /\ ~has_c) <=> (23 <= min_sdk /\ min_sdk < 26)

\* get_sdk_risk(30, 22): (b) and then (c)
C27_Witness ==
    /\ sdk_analysis # None
    /\ target_sdk = 30
    /\ min_sdk = 22
    /\ Len(sdk_analysis.recommendations) = 2
    /\ IsInsecureFinding(sdk_analysis.recommendations[1])
    /\ IsDeprecatedFinding(sdk_analysis.recommendations[2])

\* ------------------------------------------------------------------------
\* Properties of create_app_report (checked under Spec)
\* ------------------------------------------------------------------------
\* the app of the pool a report was built for
AppOf(report) ==
    AppPool[CHOOSE k \in DOMAIN AppPool : AppPool[k].package_name = report.package_name]

\* the identifiers of a list that are catalog keys, in order
MatchedKeys(perms) == SelectSeq(perms, IsCatalogKey)

\* C22: create_app_report assembles without recomputing: for
\* A = analyze_permissions(P) and S = get_sdk_risk(t, m) the report has
\* risk_score = A.risk_score, risk_level = the string name of A.risk_level,
\* sdk_issues = S.recommendations, recommendations = A.recommendations,
\* permissions = P, and dangerous_permissions of the length and order of
\* A.dangerous_permissions, each entry carrying the name, severity string,
\* category and description of its catalog record; a missing insecure_urls
\* argument becomes the empty list.
C22_PureAssembly ==
    \A i \in DOMAIN reports :
        LET report  == reports[i]
            app     == AppOf(report)
            A       == analyze_permissions(app.permissions)
            S       == get_sdk_risk(app.target_sdk, app.min_sdk)
            matched == MatchedKeys(app.permissions)
        IN  /\ DOMAIN report = AppFields
            /\ report.risk_score = A.risk_score
            /\ report.risk_level \in {"CRITICAL", "HIGH", "MEDIUM", "LOW", "INFO"}
            /\ "RiskLevel." \o report.risk_level = A.risk_level
            /\ report.sdk_issues = S.recommendations
            /\ report.recommendations = A.recommendations
            /\ report.permissions = app.permissions
            /\ report.target_sdk = app.target_sdk
            /\ report.min_sdk = app.min_sdk
            /\ Len(report.dangerous_permissions) = Len(A.dangerous_permissions)
            /\ Len(report.dangerous_permissions) = Len(matched)
            /\ \A k \in DOMAIN matched :
                  LET record == DANGEROUS_PERMISSIONS[matched[k]]
                      entry  == report.dangerous_permissions[k]
                  IN  /\ DOMAIN entry = {"name", "risk_level", "category", "description"}
                      /\ entry.name = record.name
                      /\ "RiskLevel." \o entry.risk_level = record.risk_level
                      /\ entry.category = record.category
                      /\ entry.description = record.description
            /\ app.insecure_urls = None => report.insecure_urls = <<>>
            /\ app.insecure_urls # None => report.insecure_urls = app.insecure_urls.some

\* a report for a CRITICAL and a HIGH permission around an identifier
\* outside the catalog, and a report built without the insecure_urls argument
C22_Witness ==
    /\ Len(reports) = 2
    /\ reports[1].package_name = "com.example.app4"
    /\ reports[1].risk_score = 40
    /\ reports[1].risk_level = "MEDIUM"
    /\ Len(reports[1].permissions) = 3
    /\ Len(reports[1].dangerous_permissions) = 2
    /\ reports[1].dangerous_permissions[2].name = "CAMERA"
    /\ reports[1].dangerous_permissions[2].risk_level = "HIGH"
    /\ reports[2].package_name = "com.example.app2"
    /\ AppOf(reports[2]).insecure_urls = None
    /\ reports[2].insecure_urls = <<>>

\* ------------------------------------------------------------------------
\* Frame of create_full_report and the serializers (checked under SpecRender)
\* ------------------------------------------------------------------------
\* C24: reports are read-only after creation: create_full_report and
\* generate_html, generate_json and generate_text leave the caller's
\* app_reports sequence, its length, its order and every field of every
\* AppSecurityReport in it, unchanged, and the serializers leave every field
\* of the FullScanReport unchanged.
C24_ReadOnly ==
    [][ /\ (pc = "collect" /\ pc' = "reported") => reports' = reports
        /\ (pc \in {"reported", "html", "json"} /\ pc' # pc) =>
              /\ reports' = reports
              /\ full_report' = full_report ]_vars

\* all three formats written for a scan whose second report has the higher
\* score: the full report lists it first, the caller's list still second
C24_Witness ==
    /\ pc = "done"
    /\ html_file # None /\ json_file # None /\ text_file # None
    /\ Len(reports) = 2
    /\ reports[1].risk_score < reports[2].risk_score
    /\ full_report.apps = <<reports[2], reports[1]>>
    /\ full_report.total_apps = 2

\* ------------------------------------------------------------------------
\* Properties of a device scan (checked under SpecScan)
\* ------------------------------------------------------------------------
\* no element occurs twice in the list
NoDuplicate(list) ==
    \A i \in DOMAIN list : \A j \in DOMAIN list : list[i] = list[j] => i = j

\* the reports appended by the scan_all_apps call that is running
AppendedInCall ==
    IF scan_pc = "loop" THEN (call_start + 1)..Len(reports) ELSE {}

\* C21: every report a scan produced has an insecure_urls list without
\* duplicates and of at most 20 entries, and the list is empty when the scan
\* was not a deep scan
C21_InsecureUrls ==
    /\ \A i \in DOMAIN reports :
          /\ NoDuplicate(reports[i].insecure_urls)
          /\ Len(reports[i].insecure_urls) <= 20
    /\ ~deep_scan => \A i \in AppendedInCall : reports[i].insecure_urls = <<>>

\* a deep scan reported a package whose APK holds more than 20 distinct
\* plain-http URLs, some of them twice: 20 of them are listed
C21_Witness ==
    /\ deep_scan
    /\ \E i \in AppendedInCall :
          /\ reports[i].package_name = "com.flashlight.free"
          /\ Len(reports[i].insecure_urls) = 20
          /\ Len(SelectSeq(DeviceEntry("com.flashlight.free").urls, IsInsecureUrl)) > 20

\* the permission list scan_app got for the k-th package visited: the one
\* dumpsys shows, or the empty default when the dumpsys call failed
PermissionsSeen(k) ==
    IF visited[k].dump_ok
    THEN DeviceEntry(visited[k].package).dump.permissions
    ELSE <<>>

\* C28: every report a scan produced has a non-empty permissions list; a
\* package whose permission list is empty, be it that it requests none or
\* that the package query failed, yields no report, and so is counted
\* neither in total_apps nor in the low bucket of the full report.
C28_NoPermissionsNoReport ==
    /\ \A i \in DOMAIN reports : reports[i].permissions # <<>>
    /\ \A k \in DOMAIN visited : PermissionsSeen(k) = <<>> => ~visited[k].reported
    /\ full_report # None =>
          /\ full_report.total_apps
               = Len(SelectSeq(full_report.apps, LAMBDA app : app.permissions # <<>>))
          /\ full_report.low_risk_apps
               = Len(SelectSeq(full_report.apps,
                               LAMBDA app : /\ app.permissions # <<>>
                                            /\ app.risk_level \in {"LOW", "INFO"}))

\* one scan visited a package that requests no permission and a package
\* whose dumpsys call failed, got no report from either, and reported a
\* third package
C28_Witness ==
    /\ \E k \in DOMAIN visited :
          /\ visited[k].dump_ok /\ ~visited[k].raised
          /\ DeviceEntry(visited[k].package).dump.permissions = <<>>
          /\ ~visited[k].reported
    /\ \E k \in DOMAIN visited :
          /\ ~visited[k].dump_ok /\ ~visited[k].raised
          /\ DeviceEntry(visited[k].package).dump.permissions # <<>>
          /\ ~visited[k].reported
    /\ \E k \in DOMAIN visited : visited[k].reported

\* the package names of a list of reports or of visits
PackageNames(list) == [i \in DOMAIN list |-> IF "package_name" \in DOMAIN list[i]
                                             THEN list[i].package_name
                                             ELSE list[i].package]

\* the call returns only once every package of the list was visited, and
\* returning changes no report
LoopEndsAfterLast ==
    (scan_pc = "loop" /\ scan_pc' = "idle")
        => (Len(visited) = Len(packages) /\ reports' = reports)

\* a round of the loop visits one more package of the same list and keeps
\* the reports that were there
LoopStepKeeps ==
    (scan_pc = "loop" /\ scan_pc' = "loop")
        => (/\ packages' = packages
            /\ Len(visited') = Len(visited) + 1
            /\ SubSeq(reports', 1, Len(reports)) = reports)

\* C25: scan_all_apps visits every package of the list list_packages gave
\* exactly once and in list order; a package whose scan raises or gives no
\* report does not end the loop; the reports appended during the call are
\* exactly those of the packages whose scan gave a report, in scan order; the
\* full report built afterwards has total_apps = len(scan_results).
C25_ScanVisitsAll ==
    /\ [](scan_pc = "loop" =>
            /\ Len(visited) = cursor - 1
            /\ Len(visited) <= Len(packages)
            /\ PackageNames(visited) = SubSeq(packages, 1, Len(visited))
            /\ PackageNames(SubSeq(reports, call_start + 1, Len(reports)))
                 = PackageNames(SelectSeq(visited, LAMBDA v : v.reported)))
    /\ [](full_report # None => full_report.total_apps = Len(reports))
    /\ [][LoopEndsAfterLast /\ LoopStepKeeps]_vars

\* a scan of three packages is over: the scan of the first raised, the
\* second requests no permission, the third was reported after them, and
\* reports of an earlier scan are in scan_results
C25_Witness ==
    /\ scan_pc = "loop"
    /\ Len(packages) = 3
    /\ cursor > Len(packages)
    /\ call_start > 0
    /\ visited[1].raised /\ ~visited[1].reported
    /\ visited[2].package = "com.whatsapp" /\ ~visited[2].reported
    /\ visited[3].reported
    /\ Len(reports) = call_start + 1

\* C29: after any sequence of scan_all_apps calls on one scanner,
\* scan_results, and so the full report get_full_report builds from it, holds
\* at most one report per package name, and total_apps never exceeds the
\* number of packages on the device.
C29_OneReportPerPackage ==
    /\ \A i \in DOMAIN reports : \A j \in DOMAIN reports :
          reports[i].package_name = reports[j].package_name => i = j
    /\ Len(reports) <= Len(Device)
    /\ full_report # None =>
          /\ full_report.total_apps <= Len(Device)
          /\ \A i \in DOMAIN full_report.apps : \A j \in DOMAIN full_report.apps :
                full_report.apps[i].package_name = full_report.apps[j].package_name
                    => i = j

\* ------------------------------------------------------------------------
\* Properties of the opened HTML report (checked under SpecExpand)
\* ------------------------------------------------------------------------
\* the ids of the details of the first n cards
FirstCards(n) == {"app-" \o ToString(i) : i \in 1..n}

\* C26: in the HTML report built from a scan, the cards expanded by default
\* are exactly the first min(5, high_risk_apps) entries of report.apps: every
\* CRITICAL or HIGH app precedes every MEDIUM, LOW or INFO app in the sorted
\* sequence, and at most 5 cards are expanded.
C26_ExpandedByDefault ==
    expanded # None =>
        /\ expanded.some = FirstCards(Min(5, full_report.high_risk_apps))
        /\ Cardinality(expanded.some) <= 5
        /\ \A i \in DOMAIN full_report.apps : \A j \in DOMAIN full_report.apps :
              (IsHighRisk(full_report.apps[i]) /\ ~IsHighRisk(full_report.apps[j])) => i < j

\* the report of a scan of six apps of level CRITICAL or HIGH, both levels
\* among them, scanned in another order than the sorted one, was opened:
\* five cards are expanded
C26_Witness ==
    /\ expanded # None
    /\ full_report.high_risk_apps = 6
    /\ Cardinality(expanded.some) = 5
    /\ \E i \in DOMAIN reports : reports[i].risk_level = "CRITICAL"
    /\ reports[1].risk_level = "HIGH"

\* ------------------------------------------------------------------------
\* Properties of the table of high-risk apps (checked under SpecDisplay)
\* ------------------------------------------------------------------------
\* C30: the display of high-risk apps agrees with the aggregate count: when
\* the high bucket is no larger than the cap of the display, the apps listed,
\* by the CLI version and by the menu version alike, are exactly the apps
\* counted in high_risk_apps, those of level CRITICAL or HIGH, and the
\* message that there is no high-risk app is shown only when high_risk_apps
\* is 0.
C30_DisplayAgreesWithCount ==
    shown # None =>
        LET counted == SelectSeq(full_report.apps, IsHighRisk)
        IN  /\ full_report.high_risk_apps <= shown.some.cap =>
                  /\ Len(shown.some.rows) = full_report.high_risk_apps
                  /\ {shown.some.rows[i][2] : i \in DOMAIN shown.some.rows}
                       = {counted[i].package_name : i \in DOMAIN counted}
            /\ shown.some.message # "" => full_report.high_risk_apps = 0

====
